---- MODULE Spec2Model ----
(***************************************************************************)
(* Model of the patrol engine of monitor-webhtml.                          *)
(*                                                                         *)
(*   src/core/patrol.py                PatrolEngine (registry, execute,    *)
(*                                     _patrol_website, callbacks, session)*)
(*   src/core/variables.py             VariableManager (set_variable)      *)
(*   src/gui/widgets/patrol_widget.py  PatrolTaskWidget (the caller of the *)
(*                                     engine: execution_threads guard,    *)
(*                                     add/edit/delete), and               *)
(*                                     PatrolExecutionThread (one worker   *)
(*                                     thread per execution)               *)
(*                                                                         *)
(* Spec      the widget driving one shared engine from the GUI thread and  *)
(*           from its worker threads; the steps of a worker are the points *)
(*           where another thread can run in between.                      *)
(* SpecEngine  the engine driven through its own interface by a caller     *)
(*           that awaits each call, with observers that may raise and the  *)
(*           registry changed while a call is running.                     *)
(* SpecFaults  the engine with one task whose websites fail in every way.  *)
(* SpecSite  _patrol_website applied to one website, for every task        *)
(*           configuration and every response of the bounded input sets.   *)
(***************************************************************************)
EXTENDS Integers, Sequences, FiniteSets, TLC

\* ------------------------------------------------------------------ bounds
\* worker threads (executions) ever created by the widget
MaxThreads == 2
\* longest website list of a task
MaxSites == 2
\* calls of execute_patrol_task the callers of SpecEngine make
MaxCalls == 1

\* --------------------------------------------------------------- constants
\* Names and URLs are sequences of characters, so that the safe-name
\* conversions below are computed on them.  A URL scheme is one token.
TaskNames == {<<"A">>, <<"B">>}
Digits == <<"1", "2", "3", "4", "5">>
\* the i-th website URL of the model: https://w.<i>
SiteUrl(i) == <<"https://", "w", ".", Digits[i]>>
\* associated_url None (or the empty string, equally falsy)
NoUrl == <<>>
Threads == 1..MaxThreads
\* a datetime that is None
NoTime == -1
\* a status_code that is None
NoStatus == 0
\* self.session is None / no execution thread registered
NoSession == 0
NoThread == 0

\* patrol.py:291  `response.status in [200, 201, 202]`
SuccessCodes == {200, 201, 202}

\* ------------------------------------------------------------ data model
\* PatrolType values the executor dispatches on
CheckTypes == {"content_check", "visual_check", "download_check", "form_check", "api_check"}

\* PatrolCheck(name, type, enabled, associated_url, expected_value)
\* expected_value is kept as "is it set"
PatrolCheck(name, type, enabled, url, expected) ==
    [name |-> name, type |-> type, enabled |-> enabled, associated_url |-> url,
     expected_value |-> expected]

\* the absent registry entry: self.tasks.get(name) is None
NoTask == [name |-> "none"]

\* PatrolTask(...) as the dataclass constructs it: last_run None, run_count 0.
PatrolTask(name, n, checks, enabled, report) ==
    [name |-> name, websites |-> [i \in 1..n |-> SiteUrl(i)], checks |-> checks,
     enabled |-> enabled, generate_report |-> report,
     last_run |-> NoTime, run_count |-> 0]

\* PatrolResult(task_name, website_url, success=False): the fields the engine
\* decides; response_time and content_size are measurements
PatrolResult(task, url) ==
    [task_name |-> task.name, website_url |-> url, success |-> FALSE,
     status_code |-> NoStatus, error_message |-> "", check_results |-> <<>>,
     screenshot_path |-> "None"]

\* What the network answers to one GET: a response with its status, a
\* timeout (asyncio.TimeoutError) or any other exception
Http(status) == [kind |-> "http", status |-> status]
\* the status line arrived and reading the body raised (response.text())
BodyError(status) == [kind |-> "body_error", status |-> status]
Timeout == [kind |-> "timeout", status |-> NoStatus]
RequestError == [kind |-> "error", status |-> NoStatus]
\* self.session.get on a closed session: RuntimeError("Session is closed")
SessionClosed == [kind |-> "session_closed", status |-> NoStatus]

VARIABLES
    tasks,              \* PatrolEngine.tasks: name -> PatrolTask or NoTask
    result_callbacks,   \* PatrolEngine.result_callbacks
    session,            \* PatrolEngine.session: the id of the ClientSession
    closed,             \* the ClientSessions that have been closed
    variables,          \* VariableManager._variables
    variable_metadata,  \* VariableManager._variable_metadata (the type)
    now,                \* the instant datetime.now() reads, counted in the
                        \* runs started so far
    execution_threads,  \* PatrolTaskWidget.execution_threads: name -> thread
    threads,            \* the PatrolExecutionThread objects and their runs
    site,               \* SpecSite: the website check being computed
    auth,               \* SpecAuth: the AuthenticationManager and the GETs sent
    calc,               \* SpecCalc: the calculate_next_run_time call computed
    vm,                 \* SpecVars: the threads inside the VariableManager
    subst,              \* SpecSubst: the substitute_variables call computed
    pchk,               \* SpecCheck: the _execute_patrol_check call computed
    tick,               \* SpecTick: the widget's tasks, threads and timer
    sched               \* SpecSched: the TaskScheduler and the schedule jobs

\* ------------------------------------------------------- VariableManager
\* dict assignment d[k] = v
Put(f, k, v) == [x \in DOMAIN f \cup {k} |-> IF x = k THEN v ELSE f[x]]

\* set_variable(name, value, variable_type) with an explicit type, on the
\* store st = [vals |-> _variables, meta |-> _variable_metadata]
SetVariable(st, name, value, type) ==
    [vals |-> Put(st.vals, name, value), meta |-> Put(st.meta, name, type)]

\* name.replace(' ', '_').replace('-', '_')
SafeName(s) == [i \in DOMAIN s |-> IF s[i] \in {" ", "-"} THEN "_" ELSE s[i]]

\* url.replace('https://','').replace('http://','').replace('/','_')
\*    .replace(':','_').replace('.','_')
SafeUrl(u) ==
    LET kept == SelectSeq(u, LAMBDA c : c \notin {"https://", "http://"})
    IN  [i \in DOMAIN kept |-> IF kept[i] \in {"/", ":", "."} THEN "_" ELSE kept[i]]

\* "成功" if ok else "失败"
StatusText(ok) == IF ok THEN "success" ELSE "failure"

\* f"{kind}_{a}": a variable name is the concatenation, the kind one token
VarName1(kind, a) == <<kind, "_">> \o a
\* f"{kind}_{a}_{b}"
VarName2(kind, a, b) == <<kind, "_">> \o a \o <<"_">> \o b

\* strftime(fmt) of the instant t: the format and the instant
Strftime(t, fmt) == <<fmt, t>>

\* ------------------------------------------------------ _execute_patrol_check
\* What the environment answers to one check: ok is "the check body found
\* what it looked for" (an element or the expected text, a screenshot path, a
\* download path), extracted is "a non-empty extracted value / file info",
\* raised is "the check body raised": check_result keeps success False and
\* no extracted value (patrol.py:378-385, 601-603).
CheckEnvs ==
    { e \in [ok : BOOLEAN, extracted : BOOLEAN, raised : BOOLEAN] :
        e.raised => (~e.ok /\ ~e.extracted) }

\* the answers a check of this type can get: the bodies of the API check and
\* of the form check have no statement that raises (patrol.py:462-487, 597-599)
Answers(check) ==
    IF check.type \in {"api_check", "form_check"}
    THEN { e \in CheckEnvs : ~e.raised } ELSE CheckEnvs

\* check_result['success'] at the end of the try block (patrol.py:387-603)
CheckSuccess(check, status, e) ==
    CASE check.type = "api_check"  -> status = 200
      [] check.type = "form_check" -> FALSE
      [] OTHER                     -> e.ok

\* the variables one check writes (patrol.py:516-530, 546-590, 605-663),
\* in the order of the writes; t is datetime.now()
CheckWrites(check, task, status, e, t) ==
    LET c  == SafeName(check.name)
        k  == SafeName(task.name)
        ok == CheckSuccess(check, status, e)
        body ==
            CASE check.type = "visual_check" /\ e.ok ->
                     << <<VarName2("visual", c, k), "path", "image">> >>
              [] check.type = "download_check" /\ e.ok ->
                     << <<VarName2("download_path", c, k), "path", "file">> >>
                     \o (IF e.extracted
                         THEN << <<VarName2("download_size", c, k), "size", "text">>,
                                 <<VarName2("download_name", c, k), "filename", "text">> >>
                         ELSE <<>>)
              [] OTHER -> <<>>
        common ==
            << <<VarName2("status", c, k), StatusText(ok), "text">>,
               <<VarName2("timestamp", c, k), Strftime(t, "%Y-%m-%d %H:%M:%S"), "text">> >>
        typed ==
            CASE check.type = "content_check" /\ e.extracted ->
                     << <<VarName2("extracted", c, k), "value", "text">> >>
                     \o (IF check.expected_value
                         THEN << <<VarName2("validation", c, k), StatusText(ok), "text">> >>
                         ELSE <<>>)
              [] check.type = "api_check" ->
                     << <<VarName2("api_status", c, k), status, "number">> >>
                     \o (IF e.extracted
                         THEN << <<VarName2("api_response", c, k), "value", "text">> >>
                         ELSE <<>>)
              [] OTHER -> <<>>
    IN  body \o common \o typed

\* a sequence of set_variable calls <<name, value, type>> applied in order
RECURSIVE SetAll(_, _)
SetAll(st, writes) ==
    IF writes = <<>> THEN st
    ELSE SetAll(SetVariable(st, Head(writes)[1], Head(writes)[2], Head(writes)[3]),
                Tail(writes))

\* ---------------------------------------------------------- _patrol_website
\* a check loop that runs every enabled check, whatever its associated URL
ApplicableWhenEnabled(check, url) == check.enabled

\* patrol.py:298  the check is skipped for another URL
Applicable(check, url) ==
    check.enabled /\ (check.associated_url = NoUrl \/ check.associated_url = url)

\* a basic success check that accepts every status received
BasicSuccessAnyStatus(status) == status # NoStatus

\* patrol.py:291-292  the basic success check on the status
BasicSuccess(status) == status \in SuccessCodes

\* a check loop that ignores the outcome of the checks
AfterCheckLenient(success, check_ok) == success

\* patrol.py:306-308  a failed check marks the result failed
AfterCheck(success, check_ok) == IF check_ok THEN success ELSE FALSE

\* a check loop that the first failed check ends
RECURSIVE RunChecksUntilFailure(_, _, _, _, _, _, _)
RunChecksUntilFailure(task, i, url, status, env, t, acc) ==
    IF i > Len(task.checks) THEN acc
    ELSE LET check == task.checks[i] IN
         IF ~Applicable(check, url)
         THEN RunChecksUntilFailure(task, i + 1, url, status, env, t, acc)
         ELSE LET ok == CheckSuccess(check, status, env.chk[i])
                  next == [success       |-> AfterCheck(acc.success, ok),
                           check_results |-> Put(acc.check_results, check.name, ok),
                           st            |-> SetAll(acc.st,
                                               CheckWrites(check, task, status, env.chk[i], t)),
                           ran           |-> Append(acc.ran, <<i, ok>>)]
              IN  IF ok THEN RunChecksUntilFailure(task, i + 1, url, status, env, t, next)
                  ELSE next

\* patrol.py:295-308  the loop over task.checks from the i-th on; acc is
\* [success, check_results, st, ran]; env.chk[i] answers the i-th check, and
\* ran lists the checks _execute_patrol_check was called for, with its answer
RECURSIVE RunChecks(_, _, _, _, _, _, _)
RunChecks(task, i, url, status, env, t, acc) ==
    IF i > Len(task.checks) THEN acc
    ELSE LET check == task.checks[i] IN
         IF ~Applicable(check, url)
         THEN RunChecks(task, i + 1, url, status, env, t, acc)
         ELSE LET ok == CheckSuccess(check, status, env.chk[i]) IN
              RunChecks(task, i + 1, url, status, env, t,
                  [success       |-> AfterCheck(acc.success, ok),
                   check_results |-> Put(acc.check_results, check.name, ok),
                   st            |-> SetAll(acc.st,
                                       CheckWrites(check, task, status, env.chk[i], t)),
                   ran           |-> Append(acc.ran, <<i, ok>>)])

\* patrol.py:311  a screenshot is taken for a visual check or a report
WantsScreenshot(task) ==
    task.generate_report
    \/ \E i \in DOMAIN task.checks : task.checks[i].type = "visual_check"

\* patrol.py:247-372  _patrol_website(task, website_url) under the answers
\* env = [out, chk, shot] of the network, the checks and the screenshot
\* service, on the store st at the instant t: [result, st, ran]
PatrolWebsite(task, url, env, st, t) ==
    LET r0 == PatrolResult(task, url)
        u  == SafeUrl(url)
        k  == SafeName(task.name)
    IN
    IF env.out.kind # "http"
    THEN [result |-> [r0 EXCEPT !.error_message = env.out.kind,
                                !.status_code = env.out.status],
          st |-> st, ran |-> <<>>]
    ELSE LET status == env.out.status
             acc == RunChecks(task, 1, url, status, env, t,
                        [success |-> BasicSuccess(status), check_results |-> <<>>,
                         st |-> st, ran |-> <<>>])
             shot == IF env.shot THEN "path" ELSE "None"
             st1 == IF WantsScreenshot(task)
                    THEN SetVariable(acc.st, VarName2("screenshot", u, k), shot, "image")
                    ELSE acc.st
             st2 == SetAll(st1,
                      << <<VarName2("status", u, k), StatusText(acc.success), "text">>,
                         <<VarName2("response_time", u, k), "measured", "text">>,
                         <<VarName2("content_size", u, k), "measured", "text">> >>)
         IN  [result |-> [r0 EXCEPT !.status_code = status,
                                    !.success = acc.success,
                                    !.check_results = acc.check_results,
                                    !.screenshot_path =
                                        IF WantsScreenshot(task) THEN shot ELSE "None"],
              st |-> st2, ran |-> acc.ran]

vars == <<tasks, result_callbacks, session, closed, variables, variable_metadata,
          now, execution_threads, threads, site, auth, calc, vm, subst, pchk, tick, sched>>

\* ------------------------------------------------------------- the threads
\* A PatrolExecutionThread and the execute_patrol_task call it makes.
\*   pc         "none" not created, "created" started, "execute" about to
\*              call execute_patrol_task, "loop" between two websites,
\*              "inflight" awaiting a GET, "finished" run() has returned,
\*              "done" cleanup_thread has run
\*   task       the PatrolTask object the call holds (patrol.py:177)
\*   attached   that object is still the one in the registry
\*   url        the website_url of the iteration under way
\*   issued     the session.get calls made; req_ok: the last one found the
\*              session open
\*   outs       per result, the answer the network gave
\*   answers    per result, the answers the checks got
\*   invoked    the callbacks that were called for the latest result
\*   delivered  per result, the result_received signals the widget got
\*   raised     a callback exception was logged (patrol.py:238)
\*   outcome    "completed" (a result list was returned) or "not_found"
IdleThread ==
    [task_name |-> <<>>, pc |-> "none", is_cancelled |-> FALSE, task |-> NoTask,
     attached |-> FALSE, patrol_time |-> NoTime, url |-> NoUrl, issued |-> 0,
     req_ok |-> FALSE, outs |-> <<>>, answers |-> <<>>, results |-> <<>>,
     invoked |-> 0,
     delivered |-> <<>>, raised |-> FALSE, outcome |-> "none"]

\* the most observers that register with add_result_callback
MaxObservers == 2

\* the entries of result_callbacks: a thread id for the thread's on_result,
\* -k for the k-th external observer
IsObserver(c) == c < 0
ObserverCount(cbs) == Cardinality({i \in DOMAIN cbs : IsObserver(cbs[i])})

\* the executions of the engine that are in progress
Running(t) == threads[t].pc \in {"loop", "inflight"}

Init ==
    /\ tasks = [n \in TaskNames |-> NoTask]
    /\ result_callbacks = <<>>
    /\ session = NoSession
    /\ closed = {}
    /\ variables = <<>>
    /\ variable_metadata = <<>>
    /\ now = 0
    /\ execution_threads = [n \in TaskNames |-> NoThread]
    /\ threads = [t \in Threads |-> IdleThread]
    /\ site = <<>>
    /\ auth = <<>>
    /\ calc = <<>>
    /\ vm = <<>>
    /\ subst = <<>>
    /\ pchk = <<>>
    /\ tick = <<>>
    /\ sched = <<>>

\* ------------------------------------------------------- registry operations
\* the threads whose task object is the registry entry `name` lose it when
\* the entry is replaced or deleted
Detach(thr, names) ==
    [t \in Threads |-> IF thr[t].task_name \in names
                       THEN [thr[t] EXCEPT !.attached = FALSE] ELSE thr[t]]

\* the task configurations the dialog hands over in this specification
DialogChecks == { << PatrolCheck(<<"c">>, "api_check", TRUE, NoUrl, FALSE) >> }
DialogTasks ==
    { PatrolTask(name, n, checks, enabled, TRUE) :
        name \in TaskNames, n \in {MaxSites}, checks \in DialogChecks,
        enabled \in BOOLEAN }

\* PatrolEngine.add_patrol_task(task), as PatrolTaskWidget.add_patrol_task
\* calls it, and edit_patrol_task after removing the entry of the same name
AddTask(task) ==
    /\ tasks' = [tasks EXCEPT ![task.name] = task]
    /\ threads' = Detach(threads, {task.name})
    /\ UNCHANGED <<result_callbacks, session, closed, variables, variable_metadata,
                   now, execution_threads, site, auth, calc, vm, subst, pchk, tick, sched>>

\* PatrolTaskWidget.delete_patrol_task for one selected row
DeleteTask(name) ==
    /\ tasks[name] # NoTask
    /\ tasks' = [tasks EXCEPT ![name] = NoTask]
    /\ LET t == execution_threads[name]
           thr == Detach(threads, {name})
       IN  threads' = IF t # NoThread
                      THEN [thr EXCEPT ![t].is_cancelled = TRUE] ELSE thr
    /\ execution_threads' = [execution_threads EXCEPT ![name] = NoThread]
    /\ UNCHANGED <<result_callbacks, session, closed, variables, variable_metadata,
                   now, site, auth, calc, vm, subst, pchk, tick, sched>>

\* PatrolEngine.add_result_callback called by the next observer
AddResultCallback ==
    /\ ObserverCount(result_callbacks) < MaxObservers
    /\ result_callbacks' = Append(result_callbacks,
                                   0 - (ObserverCount(result_callbacks) + 1))
    /\ UNCHANGED <<tasks, session, closed, variables, variable_metadata, now,
                   execution_threads, threads, site,
                   auth, calc, vm, subst, pchk, tick, sched>>

\* PatrolTaskWidget.execute_patrol_task(name): refused while the name has an
\* execution thread or no task; a disabled task runs when the user says Yes
\* (saying No changes nothing).  The thread is created and started.
WidgetExecute(name, t) ==
    /\ execution_threads[name] = NoThread
    /\ tasks[name] # NoTask
    /\ threads[t].pc = "none"
    /\ \A u \in Threads : u < t => threads[u].pc # "none"
    /\ threads' = [threads EXCEPT ![t] = [IdleThread EXCEPT !.task_name = name,
                                                            !.pc = "created"]]
    /\ execution_threads' = [execution_threads EXCEPT ![name] = t]
    /\ UNCHANGED <<tasks, result_callbacks, session, closed, variables,
                   variable_metadata, now, site, auth, calc, vm, subst, pchk, tick, sched>>

\* PatrolExecutionThread.run up to the call of execute_patrol_task: the
\* thread's on_result is registered (and never removed)
ThreadRun(t) ==
    /\ threads[t].pc = "created"
    /\ result_callbacks' = Append(result_callbacks, t)
    /\ threads' = [threads EXCEPT ![t].pc = "execute"]
    /\ UNCHANGED <<tasks, session, closed, variables, variable_metadata, now,
                   execution_threads, site, auth, calc, vm, subst, pchk, tick, sched>>

\* ------------------------------------------------------ execute_patrol_task
\* an execute that registers an empty disabled task for an unknown name
\* before it fails
ExecuteGetOrCreate(t) ==
    /\ tasks' = [tasks EXCEPT ![threads[t].task_name] =
                     PatrolTask(threads[t].task_name, 0, <<>>, FALSE, FALSE)]
    /\ threads' = [threads EXCEPT ![t].pc = "finished", ![t].outcome = "not_found"]
    /\ UNCHANGED <<result_callbacks, session, closed, variables,
                   variable_metadata, now, execution_threads, site,
                   auth, calc, vm, subst, pchk, tick, sched>>

\* patrol.py:177-179  the task is unknown: ValueError, caught by run()
ExecuteNotFound(t) ==
    /\ threads' = [threads EXCEPT ![t].pc = "finished", ![t].outcome = "not_found"]
    /\ UNCHANGED <<tasks, result_callbacks, session, closed, variables,
                   variable_metadata, now, execution_threads, site,
                   auth, calc, vm, subst, pchk, tick, sched>>

\* an execute that counts the run of a disabled task before it returns []
ExecuteDisabledCounted(t) ==
    /\ tasks' = [tasks EXCEPT ![threads[t].task_name].run_count = @ + 1]
    /\ threads' = [threads EXCEPT ![t].pc = "finished", ![t].outcome = "completed"]
    /\ UNCHANGED <<result_callbacks, session, closed, variables,
                   variable_metadata, now, execution_threads, site,
                   auth, calc, vm, subst, pchk, tick, sched>>

\* patrol.py:181-183  the task is disabled: return []
ExecuteDisabled(t) ==
    /\ threads' = [threads EXCEPT ![t].pc = "finished", ![t].outcome = "completed"]
    /\ UNCHANGED <<tasks, result_callbacks, session, closed, variables,
                   variable_metadata, now, execution_threads, site,
                   auth, calc, vm, subst, pchk, tick, sched>>

\* time-stamp variables without the date
TimeWritesWithoutDate(task, patrol_time) ==
    LET k == SafeName(task.name) IN
    << <<VarName1("patrol_time", k), Strftime(patrol_time, "%H:%M:%S"), "text">>,
       <<VarName1("patrol_time_formatted", k),
         Strftime(patrol_time, "%YY%mM%dD %H:%M:%S"), "text">>,
       <<VarName1("patrol_datetime", k),
         Strftime(patrol_time, "%Y-%m-%d %H:%M:%S"), "text">> >>

\* patrol.py:187-224  the four time-stamp variables of the run (the long
\* format "%Y年%m月%d日 %H:%M:%S" is written with Y, M, D for the date words)
TimeWrites(task, patrol_time) ==
    LET k == SafeName(task.name) IN
    << <<VarName1("patrol_time", k), Strftime(patrol_time, "%H:%M:%S"), "text">>,
       <<VarName1("patrol_time_formatted", k),
         Strftime(patrol_time, "%YY%mM%dD %H:%M:%S"), "text">>,
       <<VarName1("patrol_date", k), Strftime(patrol_time, "%Y-%m-%d"), "text">>,
       <<VarName1("patrol_datetime", k),
         Strftime(patrol_time, "%Y-%m-%d %H:%M:%S"), "text">> >>

\* patrol.py:185-228  the run starts: patrol_time = datetime.now() (a later
\* instant for every run), the time-stamp variables, then __aenter__ stores a
\* new ClientSession (here named after the thread) in self.session
ExecuteStart(t, task) ==
    /\ now' = now + 1
    /\ LET st == SetAll([vals |-> variables, meta |-> variable_metadata],
                        TimeWrites(task, now'))
       IN  /\ variables' = st.vals
           /\ variable_metadata' = st.meta
    /\ session' = t
    /\ threads' = [threads EXCEPT ![t].pc = "loop", ![t].task = task,
                                  ![t].attached = TRUE, ![t].patrol_time = now']
    /\ UNCHANGED <<tasks, result_callbacks, closed, execution_threads, site,
                   auth, calc, vm, subst, pchk, tick, sched>>

\* patrol.py:175-228  execute_patrol_task(task_name) up to the first website
ExecutePatrolTask(t) ==
    /\ threads[t].pc = "execute"
    /\ LET task == tasks[threads[t].task_name] IN
       IF task = NoTask THEN ExecuteNotFound(t)
       ELSE IF ~task.enabled THEN ExecuteDisabled(t)
       ELSE ExecuteStart(t, task)

\* a run that reads the website list from the registry at every iteration
RunWebsitesOfRegistry(t) ==
    IF tasks[threads[t].task_name] = NoTask THEN <<>>
    ELSE tasks[threads[t].task_name].websites

\* the websites the run iterates: the list of the task object it holds
RunWebsites(t) == threads[t].task.websites

\* a loop that walks the website list from its end
NextSiteFromEnd(t) == Len(RunWebsites(t)) - Len(threads[t].results)

\* the index of the website the run is at
NextSite(t) == Len(threads[t].results) + 1

\* patrol.py:229, 277  the next website_url of the loop and the
\* self.session.get(...) for it
IssueRequest(t) ==
    /\ threads[t].pc = "loop"
    /\ Len(threads[t].results) < Len(RunWebsites(t))
    /\ threads' = [threads EXCEPT ![t].pc = "inflight",
                                  ![t].url = RunWebsites(t)[NextSite(t)],
                                  ![t].issued = @ + 1,
                                  ![t].req_ok = session \notin closed]
    /\ UNCHANGED <<tasks, result_callbacks, session, closed, variables,
                   variable_metadata, now, execution_threads, site,
                   auth, calc, vm, subst, pchk, tick, sched>>

\* a callback loop that an exception of a callback ends
RECURSIVE NotifyUntilRaise(_, _, _, _, _)
NotifyUntilRaise(cbs, i, thr, raises, acc) ==
    IF i > Len(cbs) THEN acc
    ELSE LET c == cbs[i]
             emits == ~IsObserver(c) /\ ~thr[c].is_cancelled
             next == [invoked   |-> acc.invoked + 1,
                      delivered |-> acc.delivered + (IF emits THEN 1 ELSE 0),
                      raised    |-> acc.raised \/ i \in raises]
         IN  IF i \in raises THEN next
             ELSE NotifyUntilRaise(cbs, i + 1, thr, raises, next)

\* patrol.py:234-238  the loop over result_callbacks from the i-th on; acc is
\* [invoked, delivered, raised]; the callbacks at the positions `raises`
\* raise.  A thread's on_result emits result_received unless it is cancelled.
RECURSIVE NotifyCallbacks(_, _, _, _, _)
NotifyCallbacks(cbs, i, thr, raises, acc) ==
    IF i > Len(cbs) THEN acc
    ELSE LET c == cbs[i]
             emits == ~IsObserver(c) /\ ~thr[c].is_cancelled
         IN  NotifyCallbacks(cbs, i + 1, thr, raises,
                 [invoked   |-> acc.invoked + 1,
                  delivered |-> acc.delivered + (IF emits THEN 1 ELSE 0),
                  raised    |-> acc.raised \/ i \in raises])

\* the answers of the network to a GET: in Spec, in SpecEngine, in SpecFaults
WidgetOuts == {Http(200)}
EngineOuts == {Http(200), Timeout}
FaultOuts == {Http(200), Http(500), Timeout, RequestError}
\* the answers of the checks and of the screenshot service in both
RunEnv(task, out) ==
    [out |-> out,
     chk |-> [i \in DOMAIN task.checks |->
                 [ok |-> TRUE, extracted |-> FALSE, raised |-> FALSE]],
     shot |-> FALSE]

\* patrol.py:229-238  the GET of call t has answered out and the checks env:
\* the rest of _patrol_website, results.append(result) and the callbacks, of
\* which those at the positions raises raise
RespondWith(t, out, raises, env) ==
    LET task == threads[t].task
        pw == PatrolWebsite(task, threads[t].url, env,
                  [vals |-> variables, meta |-> variable_metadata], now)
        nt == NotifyCallbacks(result_callbacks, 1, threads, raises,
                  [invoked |-> 0, delivered |-> 0, raised |-> FALSE])
    IN  /\ variables' = pw.st.vals
        /\ variable_metadata' = pw.st.meta
        /\ threads' = [threads EXCEPT
               ![t].pc = "loop",
               ![t].outs = Append(@, out),
               ![t].answers = Append(@, env.chk),
               ![t].results = Append(@, pw.result),
               ![t].invoked = nt.invoked,
               ![t].delivered = Append(@, nt.delivered),
               ![t].raised = @ \/ nt.raised]
        /\ UNCHANGED <<tasks, result_callbacks, session, closed, now,
                       execution_threads, site, auth, calc, vm, subst, pchk, tick, sched>>

\* patrol.py:229-238  the GET returns or raises (one of outs, when the
\* session was open); every check finds what it looks for
Respond(t, outs) ==
    /\ threads[t].pc = "inflight"
    /\ \E out \in (IF threads[t].req_ok THEN outs ELSE {SessionClosed}),
          raises \in SUBSET {i \in DOMAIN result_callbacks :
                                 IsObserver(result_callbacks[i])} :
         RespondWith(t, out, raises, RunEnv(threads[t].task, out))

\* patrol.py:147-150, 240-245  __aexit__ closes self.session, whichever it is
\* now; last_run and run_count of the task object; the results are returned
ExecuteEnd(t) ==
    /\ threads[t].pc = "loop"
    /\ Len(threads[t].results) = Len(RunWebsites(t))
    /\ closed' = closed \cup {session}
    /\ tasks' = IF threads[t].attached
                THEN [tasks EXCEPT ![threads[t].task_name].last_run = threads[t].patrol_time,
                                   ![threads[t].task_name].run_count = @ + 1]
                ELSE tasks
    /\ threads' = [threads EXCEPT ![t].pc = "finished", ![t].outcome = "completed"]
    /\ UNCHANGED <<result_callbacks, session, variables, variable_metadata, now,
                   execution_threads, site, auth, calc, vm, subst, pchk, tick, sched>>

\* PatrolTaskWidget.cleanup_thread(task_name), run on the thread's finished
\* signal: the name's entry is deleted, whichever thread it holds
CleanupThread(t) ==
    /\ threads[t].pc = "finished"
    /\ execution_threads' = [execution_threads EXCEPT ![threads[t].task_name] = NoThread]
    /\ threads' = [threads EXCEPT ![t] = [IdleThread EXCEPT
                       !.pc = "done", !.task_name = threads[t].task_name,
                       !.is_cancelled = threads[t].is_cancelled]]
    /\ UNCHANGED <<tasks, result_callbacks, session, closed, variables,
                   variable_metadata, now, site, auth, calc, vm, subst, pchk, tick, sched>>

Next ==
    \/ \E task \in DialogTasks : AddTask(task)
    \/ \E name \in TaskNames : DeleteTask(name)
    \/ \E name \in TaskNames, t \in Threads : WidgetExecute(name, t)
    \/ \E t \in Threads : ThreadRun(t)
    \/ \E t \in Threads : ExecutePatrolTask(t)
    \/ \E t \in Threads : IssueRequest(t)
    \/ \E t \in Threads : Respond(t, WidgetOuts)
    \/ \E t \in Threads : ExecuteEnd(t)
    \/ \E t \in Threads : CleanupThread(t)

Spec == Init /\ [][Next]_vars

\* ------------------------------------------------------------- SpecEngine
\* The engine driven through its own interface, as src/test_time_variables.py
\* and src/demo.py drive it: callers add and remove tasks, register
\* observers and call execute_patrol_task, with no widget in between.

\* the task configurations the callers add
EngineChecks == { << PatrolCheck(<<"c">>, "content_check", TRUE, NoUrl, FALSE) >> }
EngineTasks ==
    { PatrolTask(<<"A">>, n, checks, enabled, TRUE) :
        n \in 0..MaxSites, checks \in EngineChecks, enabled \in BOOLEAN }

\* PatrolEngine.remove_patrol_task(name)
RemoveTask(name) ==
    /\ tasks[name] # NoTask
    /\ tasks' = [tasks EXCEPT ![name] = NoTask]
    /\ threads' = Detach(threads, {name})
    /\ UNCHANGED <<result_callbacks, session, closed, variables, variable_metadata,
                   now, execution_threads, site, auth, calc, vm, subst, pchk, tick, sched>>

\* the caller calls execute_patrol_task(name) and awaits it: the call t
\* begins when the caller's earlier calls have returned
EngineExecute(name, t) ==
    /\ threads[t].pc = "none"
    /\ \A u \in Threads : u < t => threads[u].pc = "done"
    /\ threads' = [threads EXCEPT ![t] = [IdleThread EXCEPT !.task_name = name,
                                                            !.pc = "execute"]]
    /\ UNCHANGED <<tasks, result_callbacks, session, closed, variables,
                   variable_metadata, now, execution_threads, site,
                   auth, calc, vm, subst, pchk, tick, sched>>

\* the caller has the returned list (or the ValueError) and drops it
CallReturns(t) ==
    /\ threads[t].pc = "finished"
    /\ threads' = [threads EXCEPT ![t] = [IdleThread EXCEPT
                       !.pc = "done", !.task_name = threads[t].task_name]]
    /\ UNCHANGED <<tasks, result_callbacks, session, closed, variables,
                   variable_metadata, now, execution_threads, site,
                   auth, calc, vm, subst, pchk, tick, sched>>

NextEngine ==
    \/ \E task \in EngineTasks : AddTask(task)
    \/ \E name \in TaskNames : RemoveTask(name)
    \/ AddResultCallback
    \/ \E name \in TaskNames, t \in 1..MaxCalls : EngineExecute(name, t)
    \/ \E t \in Threads : ExecutePatrolTask(t)
    \/ \E t \in Threads : IssueRequest(t)
    \/ \E t \in Threads : Respond(t, EngineOuts)
    \/ \E t \in Threads : ExecuteEnd(t)
    \/ \E t \in Threads : CallReturns(t)

SpecEngine == Init /\ [][NextEngine]_vars

\* ------------------------------------------------------------- SpecFaults
\* The engine with one task, added once, whose websites answer, fail with a
\* server error, time out or refuse the connection.

\* the tasks of SpecFaults: two content checks for every website
FaultChecks ==
    { << PatrolCheck(<<"c", "1">>, "content_check", TRUE, NoUrl, FALSE),
         PatrolCheck(<<"c", "2">>, "content_check", TRUE, NoUrl, FALSE) >> }
FaultTasks ==
    { PatrolTask(<<"A">>, n, checks, enabled, TRUE) :
        n \in 0..MaxSites, checks \in FaultChecks, enabled \in BOOLEAN }

\* the caller adds the task before its first call
InstallTask(task) ==
    /\ tasks[task.name] = NoTask
    /\ \A t \in Threads : threads[t].pc = "none"
    /\ AddTask(task)

\* the answers the checks of a website get in SpecFaults: every check finds
\* what it looks for, or the first check does not, or the first check raises
FaultAnswers(task) ==
    LET good == RunEnv(task, Http(200)).chk IN
    {good} \cup
    { [good EXCEPT ![1] = e] :
        e \in { x \in Answers(task.checks[1]) : ~x.ok /\ ~x.extracted } }

\* patrol.py:229-238  the GET returns or raises, and the checks of a
\* response get one of the answers above
RespondAnswered(t, outs) ==
    /\ threads[t].pc = "inflight"
    /\ \E out \in (IF threads[t].req_ok THEN outs ELSE {SessionClosed}) :
         \E chk \in (IF out.kind = "http" THEN FaultAnswers(threads[t].task)
                      ELSE {RunEnv(threads[t].task, out).chk}) :
            RespondWith(t, out, {}, [out |-> out, chk |-> chk, shot |-> FALSE])

NextFaults ==
    \/ \E task \in FaultTasks : InstallTask(task)
    \/ \E name \in TaskNames, t \in 1..MaxCalls : EngineExecute(name, t)
    \/ \E t \in Threads : ExecutePatrolTask(t)
    \/ \E t \in Threads : IssueRequest(t)
    \/ \E t \in Threads : RespondAnswered(t, FaultOuts)
    \/ \E t \in Threads : ExecuteEnd(t)
    \/ \E t \in Threads : CallReturns(t)

SpecFaults == Init /\ [][NextFaults]_vars

\* --------------------------------------------------------------- SpecSite
\* _patrol_website on one website: the task, the URL and the answers of the
\* environment are drawn from the sets below, and PatrolSite applies it.

\* longest check list of a task in SpecSite
MaxChecks == 2

\* the URL under test
SiteUnderTest == SiteUrl(1)

\* the checks a task is made of
SiteChecks ==
    { PatrolCheck(<<"c", "1">>, "content_check", TRUE, NoUrl, TRUE),
      PatrolCheck(<<"c", "2">>, "api_check", TRUE, SiteUrl(1), FALSE),
      PatrolCheck(<<"c", "3">>, "form_check", TRUE, NoUrl, FALSE),
      PatrolCheck(<<"c", "4">>, "visual_check", TRUE, SiteUrl(2), FALSE),
      PatrolCheck(<<"c", "5">>, "download_check", FALSE, NoUrl, FALSE) }

\* the answers the environment can give to a check: one for a check that is
\* not run
SiteEnvs(check) ==
    IF Applicable(check, SiteUnderTest) THEN Answers(check)
    ELSE { [ok |-> FALSE, extracted |-> FALSE, raised |-> FALSE] }

\* a check together with an answer of the environment to it
AnsweredChecks == { ke \in SiteChecks \X CheckEnvs : ke[2] \in SiteEnvs(ke[1]) }

\* the check lists of at most n checks, each with the answers to its checks
RECURSIVE SiteCases(_)
SiteCases(n) ==
    IF n = 0 THEN { [checks |-> <<>>, chk |-> <<>>] }
    ELSE LET prev == SiteCases(n - 1) IN
         prev \cup { [checks |-> Append(c.checks, ke[1]), chk |-> Append(c.chk, ke[2])] :
                       c \in { x \in prev : Len(x.checks) = n - 1 },
                       ke \in AnsweredChecks }

\* the answers of the network
SiteOuts == {Http(200), Http(202), Http(404), Http(500), BodyError(200), Timeout}

\* the task of a case
SiteTask(c, report) == PatrolTask(<<"A">>, 1, c.checks, TRUE, report)

\* the answers of the screenshot service: one when no screenshot is taken
SiteShots(task) == IF WantsScreenshot(task) THEN BOOLEAN ELSE {FALSE}

SiteInputs ==
    { [pc |-> "input", task |-> SiteTask(x[1], x[2]), url |-> SiteUnderTest,
       env |-> [out |-> x[4], chk |-> x[1].chk, shot |-> x[3]],
       result |-> <<>>, ran |-> <<>>] :
         x \in { y \in SiteCases(MaxChecks) \X BOOLEAN \X BOOLEAN \X SiteOuts :
                     y[3] \in SiteShots(SiteTask(y[1], y[2])) } }

InitSite ==
    /\ tasks = [n \in TaskNames |-> NoTask]
    /\ result_callbacks = <<>>
    /\ session = NoSession
    /\ closed = {}
    /\ variables = <<>>
    /\ variable_metadata = <<>>
    /\ now = 0
    /\ execution_threads = [n \in TaskNames |-> NoThread]
    /\ threads = [t \in Threads |-> IdleThread]
    /\ site \in SiteInputs
    /\ auth = <<>>
    /\ calc = <<>>
    /\ vm = <<>>
    /\ subst = <<>>
    /\ pchk = <<>>
    /\ tick = <<>>
    /\ sched = <<>>

\* result = await self._patrol_website(task, website_url)
PatrolSite ==
    /\ site.pc = "input"
    /\ LET pw == PatrolWebsite(site.task, site.url, site.env,
                     [vals |-> variables, meta |-> variable_metadata], now)
       IN  /\ site' = [site EXCEPT !.pc = "done", !.result = pw.result, !.ran = pw.ran]
           /\ variables' = pw.st.vals
           /\ variable_metadata' = pw.st.meta
    /\ UNCHANGED <<tasks, result_callbacks, session, closed, now,
                   execution_threads, threads, auth, calc, vm, subst, pchk, tick, sched>>

NextSiteStep == PatrolSite

SpecSite == InitSite /\ [][NextSiteStep]_vars

\* ------------------------------------------------------------------ SpecAuth
\* The authentication of _patrol_website (patrol.py:259-282) against the
\* AuthenticationManager of the engine (auth.py): auth is
\*   sessions  self.sessions, the cached AuthSession of each key
\*   headers   the default headers of the one self.http_session
\*   cookies   the cookie jar of the one self.http_session
\*   get       the last GET of _patrol_website: the auth_config it was for,
\*             whether its authentication failed, its headers and cookies
\*   gets      the number of GETs so far
MaxGets == 3

\* the engine outside SpecAuth's part of it: nothing registered, nothing run
EngineIdle ==
    /\ tasks = [n \in TaskNames |-> NoTask]
    /\ result_callbacks = <<>>
    /\ session = NoSession
    /\ closed = {}
    /\ variables = <<>>
    /\ variable_metadata = <<>>
    /\ now = 0
    /\ execution_threads = [n \in TaskNames |-> NoThread]
    /\ threads = [t \in Threads |-> IdleThread]

engine_vars == <<tasks, result_callbacks, session, closed, variables,
                 variable_metadata, now, execution_threads, threads>>

\* task.auth_config: type, username and the password or token ("" is unset);
\* the login_url of the form type is set
AuthTypes == {"basic", "bearer", "form", "digest"}
AuthConfigs == [type : AuthTypes, username : {"", "u1", "u2"}, secret : {"", "s1"}]
NoAuthConfig == [type |-> "none", username |-> "", secret |-> ""]
NoGet == [config |-> NoAuthConfig, failed |-> FALSE, headers |-> <<>>, cookies |-> <<>>]

\* auth.py:186-195  the key of a cached session: type, login_url, username
GenerateSessionKey(config) == <<config.type, config.username>>

\* auth.py:69-83  _create_authenticated_session: the AuthSession, or None
\* after a raise or for an unknown type; login_ok is the answer of the
\* login POST of the form type (status 200 or 302)
NoAuthSession == [headers |-> <<>>, cookies |-> <<>>, none |-> TRUE]
CreateAuthenticatedSession(config, login_ok) ==
    CASE config.type = "basic" ->
             IF config.username = "" \/ config.secret = "" THEN NoAuthSession
             ELSE [headers |-> [h \in {"Authorization"} |->
                                   <<"Basic", config.username, config.secret>>],
                   cookies |-> <<>>, none |-> FALSE]
      [] config.type = "bearer" ->
             IF config.secret = "" THEN NoAuthSession
             ELSE [headers |-> [h \in {"Authorization"} |-> <<"Bearer", config.secret>>],
                   cookies |-> <<>>, none |-> FALSE]
      [] config.type = "form" ->
             IF config.username = "" \/ config.secret = "" \/ ~login_ok
             THEN NoAuthSession
             ELSE [headers |-> <<>>,
                   cookies |-> [c \in {"sid"} |-> config.username], none |-> FALSE]
      [] OTHER -> NoAuthSession

\* f.update(g)
Update(f, g) == [x \in DOMAIN f \cup DOMAIN g |-> IF x \in DOMAIN g THEN g[x] ELSE f[x]]

\* auth.py:175-184  _apply_session_data on a = [sessions, headers, cookies, ..]
ApplySessionData(a, s) ==
    [a EXCEPT !.headers = Update(@, s.headers), !.cookies = Update(@, s.cookies)]

\* auth.py:40-67  get_authenticated_session for a type that is not "none":
\* the manager afterwards and whether the authentication failed.  A cached
\* session of the key is applied again when it has not expired, and one
\* that has expired is deleted and created again.
GetAuthenticatedSession(a, config, expired, login_ok) ==
    LET key == GenerateSessionKey(config)
        s == CreateAuthenticatedSession(config, login_ok)
    IN  IF key \in DOMAIN a.sessions /\ ~expired
        THEN [a |-> ApplySessionData(a, a.sessions[key]), failed |-> FALSE]
        ELSE IF s.none
             THEN [a |-> [a EXCEPT !.sessions =
                             [k \in DOMAIN @ \ {key} |-> @[k]]],
                   failed |-> TRUE]
             ELSE [a |-> ApplySessionData([a EXCEPT !.sessions = Put(@, key, s)], s),
                   failed |-> FALSE]

InitAuth ==
    /\ EngineIdle
    /\ site = <<>>
    /\ auth = [sessions |-> <<>>, headers |-> <<>>, cookies |-> <<>>,
               get |-> NoGet, gets |-> 0]
    /\ calc = <<>>
    /\ vm = <<>>
    /\ subst = <<>>
    /\ pchk = <<>>
    /\ tick = <<>>
    /\ sched = <<>>

\* patrol.py:259-282  a task without auth_config or with type "none": the GET
\* goes out with the empty headers and cookies
PatrolGetPlain ==
    /\ auth.gets < MaxGets
    /\ auth' = [auth EXCEPT !.get = NoGet, !.gets = @ + 1]
    /\ UNCHANGED <<engine_vars, site, calc, vm, subst, pchk, tick, sched>>

\* patrol.py:259-282  a task with an auth_config of another type: the
\* headers and cookies of the GET are copied from the session the manager
\* returns
PatrolGetAuth(config) ==
    /\ auth.gets < MaxGets
    /\ \E expired \in BOOLEAN, login_ok \in BOOLEAN :
         LET g == GetAuthenticatedSession(auth, config, expired, login_ok) IN
         auth' = [g.a EXCEPT !.get = [config |-> config, failed |-> g.failed,
                                      headers |-> g.a.headers,
                                      cookies |-> g.a.cookies],
                             !.gets = @ + 1]
    /\ UNCHANGED <<engine_vars, site, calc, vm, subst, pchk, tick, sched>>

NextAuth ==
    \/ PatrolGetPlain
    \/ \E config \in AuthConfigs : PatrolGetAuth(config)

SpecAuth == InitAuth /\ [][NextAuth]_vars

\* ------------------------------------------------------------------ SpecCalc
\* calculate_next_run_time (patrol.py:675-748) as a function of the task and
\* of now = datetime.now().  An instant is [day, hour, minute, second]: day
\* counts the days from Monday 2024-12-23, so day % 7 is datetime.weekday().
\* A time of day of the task is the string the dialog stored, a sequence of
\* characters.
MaxDay == 7
MaxTimes == 2

Instant(day, hour, minute, second) ==
    [day |-> day, hour |-> hour, minute |-> minute, second |-> second]

\* the order of datetime: the seconds since the first day
Stamp(i) == ((i.day * 24 + i.hour) * 60 + i.minute) * 60 + i.second

\* now.weekday(), Monday is 0
Weekday(i) == i.day % 7

\* the first days of 2024-12, 2025-01, 2025-02 and 2025-03
MonthStarts == <<-22, 9, 40, 68>>

\* now.replace(month=now.month+1, day=1), with year+1 and month=1 after
\* December: the first day of the month after the month of day
FirstOfNextMonth(day) ==
    LET later == { k \in DOMAIN MonthStarts : MonthStarts[k] > day }
    IN  MonthStarts[CHOOSE k \in later : \A j \in later : k <= j]

\* ord(c) of the characters of a time string
CharCode(c) ==
    CASE c = "0" -> 48 [] c = "1" -> 49 [] c = "2" -> 50 [] c = "3" -> 51
      [] c = "4" -> 52 [] c = "5" -> 53 [] c = "6" -> 54 [] c = "7" -> 55
      [] c = "8" -> 56 [] c = "9" -> 57 [] c = ":" -> 58

\* a < b for two strings: the order sorted() sorts a list of str by
RECURSIVE StrLess(_, _)
StrLess(a, b) ==
    IF b = <<>> THEN FALSE
    ELSE IF a = <<>> THEN TRUE
    ELSE IF Head(a) # Head(b) THEN CharCode(Head(a)) < CharCode(Head(b))
    ELSE StrLess(Tail(a), Tail(b))

\* sorted(list) of a list of str
RECURSIVE Sorted(_)
Sorted(list) ==
    IF list = <<>> THEN <<>>
    ELSE LET least == CHOOSE k \in DOMAIN list :
                          \A j \in DOMAIN list :
                              ~StrLess(list[j], list[k]) /\ (list[j] = list[k] => k <= j)
             rest == [j \in 1..(Len(list) - 1) |-> IF j < least THEN list[j] ELSE list[j + 1]]
         IN  <<list[least]>> \o Sorted(rest)

\* int(s) of a string of digits
RECURSIVE ParseInt(_, _)
ParseInt(s, acc) ==
    IF s = <<>> THEN acc ELSE ParseInt(Tail(s), acc * 10 + (CharCode(Head(s)) - 48))

\* hour, minute = map(int, s.split(':'))
SplitTime(s) ==
    LET colon == CHOOSE k \in DOMAIN s : s[k] = ":" IN
    [hour   |-> ParseInt(SubSeq(s, 1, colon - 1), 0),
     minute |-> ParseInt(SubSeq(s, colon + 1, Len(s)), 0)]

\* now.replace(hour=hour, minute=minute, second=0, microsecond=0)
AtTime(now_, s) ==
    LET hm == SplitTime(s) IN Instant(now_.day, hm.hour, hm.minute, 0)

\* next_run < now: a test that lets a run scheduled for now stay today
PassedStrictly(next_run, now_) == Stamp(next_run) < Stamp(now_)

\* patrol.py:685  next_run <= now
Passed(next_run, now_) == Stamp(next_run) <= Stamp(now_)

\* patrol.py:681-686  today at start_time, or tomorrow when that has passed
DailyRun(task, now_) ==
    LET next_run == AtTime(now_, task.start_time) IN
    IF Passed(next_run, now_) THEN [next_run EXCEPT !.day = @ + 1] ELSE next_run

\* patrol.py:698-713  the first of the sorted times that is after now
\* today, or the first of the sorted times tomorrow
MultipleDailyRun(task, now_) ==
    LET times == Sorted(task.multiple_times)
        after == { k \in DOMAIN times : Stamp(AtTime(now_, times[k])) > Stamp(now_) }
    IN  IF after # {}
        THEN AtTime(now_, times[CHOOSE k \in after : \A j \in after : k <= j])
        ELSE [AtTime(now_, times[1]) EXCEPT !.day = @ + 1]

\* a week that counts a Monday as its own next Monday
WeeklyRunThisMonday(task, now_) ==
    LET d == 0 - Weekday(now_)
        days_ahead == IF d < 0 THEN d + 7 ELSE d
    IN  [AtTime(now_, task.start_time) EXCEPT !.day = @ + days_ahead]

\* patrol.py:715-722  Monday at start_time
WeeklyRun(task, now_) ==
    LET d == 0 - Weekday(now_)
        days_ahead == IF d <= 0 THEN d + 7 ELSE d
    IN  [AtTime(now_, task.start_time) EXCEPT !.day = @ + days_ahead]

\* patrol.py:724-732  the first day of the next month at start_time
MonthlyRun(task, now_) ==
    [AtTime(now_, task.start_time) EXCEPT !.day = FirstOfNextMonth(now_.day)]

\* patrol.py:675-748  calculate_next_run_time(task) at now
CalculateNextRunTime(task, now_) ==
    CASE task.frequency = "daily" -> DailyRun(task, now_)
      [] task.frequency = "multiple_daily" ->
             IF task.multiple_times = <<>> THEN DailyRun(task, now_)
             ELSE MultipleDailyRun(task, now_)
      [] task.frequency = "weekly" -> WeeklyRun(task, now_)
      [] task.frequency = "monthly" -> MonthlyRun(task, now_)
      [] OTHER -> DailyRun(task, now_)

\* the tasks and the instants of SpecCalc: start_time is written by the
\* dialog's QTimeEdit as HH:mm, the multiple_times are the strings the
\* dialog accepts, one or two digits for the hour
StartTimes == { <<"0", "9", ":", "0", "0">>, <<"1", "4", ":", "3", "0">> }
TimeStrings == { <<"0", "9", ":", "0", "0">>, <<"1", "4", ":", "0", "0">>,
                 <<"9", ":", "0", "0">> }
Frequencies == {"daily", "multiple_daily", "weekly", "monthly", "custom"}
TimeLists == UNION { [1..n -> TimeStrings] : n \in 0..MaxTimes }
NowHours == {8, 9, 10, 14, 15}
NoInstant == Instant(-1, 0, 0, 0)

InitCalc ==
    /\ EngineIdle
    /\ site = <<>>
    /\ auth = <<>>
    /\ calc \in [pc : {"input"},
                 task : [frequency : Frequencies, start_time : StartTimes,
                         multiple_times : TimeLists, custom_schedule : BOOLEAN,
                         last_run : {NoInstant}, next_run : {NoInstant},
                         run_count : {0}],
                 now : [day : 0..MaxDay, hour : NowHours, minute : {0},
                        second : {0, 30}],
                 next_run : {NoInstant}]
    /\ vm = <<>>
    /\ subst = <<>>
    /\ pchk = <<>>
    /\ tick = <<>>
    /\ sched = <<>>

\* next_run = self.calculate_next_run_time(task)
Calculate ==
    /\ calc.pc = "input"
    /\ calc' = [calc EXCEPT !.pc = "done",
                            !.next_run = CalculateNextRunTime(calc.task, calc.now)]
    /\ UNCHANGED <<engine_vars, site, auth, vm, subst, pchk, tick, sched>>

NextCalc == Calculate

SpecCalc == InitCalc /\ [][NextCalc]_vars

\* ------------------------------------------------------------------ SpecVars
\* One name of the VariableManager under set_variable calls of the execution
\* threads and a get_variable_with_metadata of another thread
\* (variables.py:20-62).  No lock is taken, so a thread can be preempted
\* between two statements; vm is
\*   variables, metadata   _variables and _variable_metadata
\*   set       per writer, the call it is in between its two stores, or NoCall
\*   sets      per writer, the calls it has begun
\*   calls     the calls begun so far, by any writer
\*   pc, value, result     the reader: its position, the value it has read,
\*                         and what its last call returned
MaxSets == 2
Writers == 1..2
VarX == "x"
NoCall == [value |-> "", type |-> "", description |-> ""]
SetCalls == { [value |-> "a", type |-> "text", description |-> "d1"],
              [value |-> "p.png", type |-> "image", description |-> "d2"] }
NoResult == [none |-> TRUE, value |-> "", metadata |-> <<>>]

\* variables.py:37-42  the metadata a call stores
Metadata(call) == [type |-> call.type, description |-> call.description]

InitVars ==
    /\ EngineIdle
    /\ site = <<>>
    /\ auth = <<>>
    /\ calc = <<>>
    /\ vm = [variables |-> <<>>, metadata |-> <<>>,
             set |-> [w \in Writers |-> NoCall],
             sets |-> [w \in Writers |-> 0],
             calls |-> {},
             pc |-> "idle", value |-> "", result |-> NoResult]
    /\ subst = <<>>
    /\ pchk = <<>>
    /\ tick = <<>>
    /\ sched = <<>>

\* variables.py:20-36  set_variable up to self._variables[name] = value
StoreValue(w, call) ==
    /\ vm.set[w] = NoCall
    /\ vm.sets[w] < MaxSets
    /\ vm' = [vm EXCEPT !.variables = Put(@, VarX, call.value), !.set[w] = call,
                        !.sets[w] = @ + 1, !.calls = @ \cup {call}]
    /\ UNCHANGED <<engine_vars, site, auth, calc, subst, pchk, tick, sched>>

\* variables.py:37-44  self._variable_metadata[name] = {...}, and the return
StoreMetadata(w) ==
    /\ vm.set[w] # NoCall
    /\ vm' = [vm EXCEPT !.metadata = Put(@, VarX, Metadata(vm.set[w])),
                        !.set[w] = NoCall]
    /\ UNCHANGED <<engine_vars, site, auth, calc, subst, pchk, tick, sched>>

\* variables.py:53-57  get_variable_with_metadata: name not in
\* self._variables returns None
ReadMembership ==
    /\ vm.pc = "idle"
    /\ vm' = IF VarX \notin DOMAIN vm.variables
             THEN [vm EXCEPT !.result = NoResult]
             ELSE [vm EXCEPT !.pc = "value"]
    /\ UNCHANGED <<engine_vars, site, auth, calc, subst, pchk, tick, sched>>

\* variables.py:60  'value': self._variables[name]
ReadValue ==
    /\ vm.pc = "value"
    /\ vm' = [vm EXCEPT !.pc = "metadata", !.value = vm.variables[VarX]]
    /\ UNCHANGED <<engine_vars, site, auth, calc, subst, pchk, tick, sched>>

\* variables.py:61  'metadata': self._variable_metadata.get(name, {}), and
\* the return of the dict
ReadMetadata ==
    /\ vm.pc = "metadata"
    /\ vm' = [vm EXCEPT !.pc = "idle", !.value = "",
                        !.result = [none |-> FALSE, value |-> vm.value,
                                    metadata |-> IF VarX \in DOMAIN vm.metadata
                                                 THEN vm.metadata[VarX] ELSE <<>>]]
    /\ UNCHANGED <<engine_vars, site, auth, calc, subst, pchk, tick, sched>>

NextVars ==
    \/ \E w \in Writers, call \in SetCalls : StoreValue(w, call)
    \/ \E w \in Writers : StoreMetadata(w)
    \/ ReadMembership
    \/ ReadValue
    \/ ReadMetadata

SpecVars == InitVars /\ [][NextVars]_vars

\* ----------------------------------------------------------------- SpecSubst
\* substitute_variables (variables.py:182-206) on texts and names that are
\* sequences of characters.  A stored value is a str, an int or None; subst is
\*   store   _variables
\*   text    the argument of the first call
\*   once    what substitute_variables(text) returned
\*   twice   what substitute_variables(once) returned
MaxPieces == 3

StrValue(s) == [kind |-> "str", s |-> s, n |-> 0]
IntValue(n) == [kind |-> "int", s |-> <<>>, n |-> n]
None == [kind |-> "none", s |-> <<>>, n |-> 0]

\* str(n) of an int n >= 0
RECURSIVE Decimal(_)
Decimal(n) ==
    IF n < 10 THEN <<SubSeq(<<"0", "1", "2", "3", "4", "5", "6", "7", "8", "9">>,
                            n + 1, n + 1)[1]>>
    ELSE Decimal(n \div 10) \o Decimal(n % 10)

\* str(value)
Str(value) ==
    CASE value.kind = "str" -> value.s
      [] value.kind = "int" -> Decimal(value.n)
      [] OTHER -> <<"N", "o", "n", "e">>

\* variables.py:49-51  self._variables.get(name, None)
GetVariable(store, name) == IF name \in DOMAIN store THEN store[name] ELSE None

\* variables.py:191-200  replace_variable(match): str(value) of the variable
\* named by group 1, or the match itself when get_variable gives None
ReplaceVariable(store, name, match) ==
    LET var_value == GetVariable(store, name) IN
    IF var_value # None THEN Str(var_value) ELSE match

\* variables.py:189, 202  re.sub(r'\$\{([^}]+)\}', replace_variable, text)
\* from position i on: a match at i is "${", one or more characters other
\* than "}", and the first "}"; the scan goes on behind the match, or behind
\* the character at i when there is no match at i
RECURSIVE ReSub(_, _, _)
ReSub(store, text, i) ==
    IF i > Len(text) THEN <<>>
    ELSE LET closes == { j \in (i + 2)..Len(text) : text[j] = "}" }
             j == CHOOSE k \in closes : \A l \in closes : k <= l
         IN  IF /\ text[i] = "$"
                /\ i + 1 <= Len(text)
                /\ text[i + 1] = "{"
                /\ closes # {}
                /\ j > i + 2
             THEN ReplaceVariable(store, SubSeq(text, i + 2, j - 1), SubSeq(text, i, j))
                      \o ReSub(store, text, j + 1)
             ELSE <<text[i]>> \o ReSub(store, text, i + 1)

\* a substitution that goes over its result again
SubstituteVariablesTwice(store, text) == ReSub(store, ReSub(store, text, 1), 1)

\* variables.py:182-206  substitute_variables(text)
SubstituteVariables(store, text) == ReSub(store, text, 1)

\* the texts of SpecSubst are made of at most MaxPieces of these pieces
Pieces ==
    { <<"$">>, <<"{">>, <<"$", "{">>, <<"x">>, <<"{", "y", "}">>,
      <<"$", "{", "x", "}">>, <<"$", "{", "y", "}">>, <<"}">> }

RECURSIVE Concat(_)
Concat(pieces) == IF pieces = <<>> THEN <<>> ELSE Head(pieces) \o Concat(Tail(pieces))

Texts == { Concat(p) : p \in UNION { [1..n -> Pieces] : n \in 0..MaxPieces } }

\* the stores of SpecSubst: x unset or one of these values, y unset or "w"
XValues ==
    { None, IntValue(42), StrValue(<<"v">>), StrValue(<<>>), StrValue(<<"$">>),
      StrValue(<<"{", "x", "}">>), StrValue(<<"$", "{", "y", "}">>) }
Stores ==
    { [n \in dx \cup dy |-> IF n = <<"x">> THEN vx ELSE StrValue(<<"w">>)] :
        dx \in {{}, {<<"x">>}}, dy \in {{}, {<<"y">>}}, vx \in XValues }

InitSubst ==
    /\ EngineIdle
    /\ site = <<>>
    /\ auth = <<>>
    /\ calc = <<>>
    /\ vm = <<>>
    /\ subst \in [pc : {"input"}, store : Stores, text : Texts,
                  once : {<<>>}, twice : {<<>>}]
    /\ pchk = <<>>
    /\ tick = <<>>
    /\ sched = <<>>

\* once = variable_manager.substitute_variables(text)
Substitute ==
    /\ subst.pc = "input"
    /\ subst' = [subst EXCEPT !.pc = "once",
                              !.once = SubstituteVariables(subst.store, subst.text)]
    /\ UNCHANGED <<engine_vars, site, auth, calc, vm, pchk, tick, sched>>

\* twice = variable_manager.substitute_variables(once)
SubstituteAgain ==
    /\ subst.pc = "once"
    /\ subst' = [subst EXCEPT !.pc = "twice",
                              !.twice = SubstituteVariables(subst.store, subst.once)]
    /\ UNCHANGED <<engine_vars, site, auth, calc, vm, pchk, tick, sched>>

NextSubst == Substitute \/ SubstituteAgain

SpecSubst == InitSubst /\ [][NextSubst]_vars

\* ----------------------------------------------------------------- SpecStore
\* The operations of the VariableManager (variables.py:20-180) on the store
\* of the engine, variables and variable_metadata, called by a user of the
\* store.  A value is a str, an int, a float (n counts its tenths), a bool
\* or None; the metadata of a name is its 'type'.
FloatValue(n) == [kind |-> "float", s |-> <<>>, n |-> n]
BoolValue(b) == [kind |-> "bool", s |-> <<>>, n |-> IF b THEN 1 ELSE 0]

\* isinstance(value, kinds): bool is a subclass of int
IsInstance(value, kinds) ==
    \/ value.kind \in kinds
    \/ (value.kind = "bool" /\ "int" \in kinds)

\* s.endswith(suffix)
EndsWith(s, suffix) ==
    /\ Len(s) >= Len(suffix)
    /\ SubSeq(s, Len(s) - Len(suffix) + 1, Len(s)) = suffix

\* variables.py:25  ('.png', '.jpg', '.jpeg', '.gif', '.bmp')
ImageExtensions ==
    { <<".", "p", "n", "g">>, <<".", "j", "p", "g">>, <<".", "j", "p", "e", "g">>,
      <<".", "g", "i", "f">>, <<".", "b", "m", "p">> }

\* Path(s).exists(): the file f exists, and Path('') is the current directory
ExistingPaths == { <<"f">>, <<>> }

\* variables.py:24-34  the type of variable_type == "auto"
InferType(value) ==
    IF IsInstance(value, {"str"}) /\ \E ext \in ImageExtensions : EndsWith(value.s, ext)
    THEN "image"
    ELSE IF IsInstance(value, {"str"}) /\ value.s \in ExistingPaths THEN "file"
    ELSE IF IsInstance(value, {"int", "float"}) THEN "number"
    ELSE IF IsInstance(value, {"bool"}) THEN "boolean"
    ELSE "text"

\* del d[k]
Remove(f, k) == [x \in DOMAIN f \ {k} |-> f[x]]

other_vars == <<tasks, result_callbacks, session, closed, now, execution_threads,
                threads, site, auth, calc, vm, subst, pchk, tick, sched>>

\* variables.py:20-47  set_variable(name, value), variable_type "auto"
SetVariableAuto(name, value) ==
    /\ variables' = Put(variables, name, value)
    /\ variable_metadata' = Put(variable_metadata, name, InferType(value))
    /\ UNCHANGED other_vars

\* variables.py:78-87  update_variable(name, value): the value of a stored
\* name is replaced and its type kept; a new name is set
UpdateVariable(name, value) ==
    IF name \in DOMAIN variables
    THEN /\ variables' = Put(variables, name, value)
         /\ UNCHANGED <<variable_metadata, other_vars>>
    ELSE SetVariableAuto(name, value)

\* variables.py:89-97  delete_variable(name) of a stored name
DeleteVariable(name) ==
    /\ name \in DOMAIN variables
    /\ variables' = Remove(variables, name)
    /\ variable_metadata' = Remove(variable_metadata, name)
    /\ UNCHANGED other_vars

\* variables.py:99-103  clear_variables()
ClearVariables ==
    /\ variables' = <<>>
    /\ variable_metadata' = <<>>
    /\ UNCHANGED other_vars

\* an import that puts the file in the place of the store
ImportReplacing(file, overwrite) ==
    /\ variables' = file.variables
    /\ variable_metadata' = file.metadata
    /\ UNCHANGED other_vars

\* variables.py:159-180  import_variables(file_path, overwrite): a name of
\* the file is skipped when it is stored and overwrite is off; else its
\* value is stored, and its metadata when the file has metadata for it
ImportVariables(file, overwrite) ==
    LET taken == { n \in DOMAIN file.variables : overwrite \/ n \notin DOMAIN variables }
    IN  /\ variables' = [n \in DOMAIN variables \cup taken |->
                            IF n \in taken THEN file.variables[n] ELSE variables[n]]
        /\ variable_metadata' =
               [n \in DOMAIN variable_metadata \cup (taken \cap DOMAIN file.metadata) |->
                   IF n \in taken \cap DOMAIN file.metadata
                   THEN file.metadata[n] ELSE variable_metadata[n]]
        /\ UNCHANGED other_vars

\* variables.py:105-112  get_variables_by_type(variable_type)
GetVariablesByType(variable_type) ==
    LET names == { n \in DOMAIN variables :
                     n \in DOMAIN variable_metadata
                         /\ variable_metadata[n] = variable_type }
    IN  [n \in names |-> variables[n]]

\* the names, values and files of SpecStore
StoreNames == { <<"u">>, <<"i">> }
StoreValues ==
    { StrValue(<<"p", ".", "p", "n", "g">>), StrValue(<<"f">>), StrValue(<<"v">>),
      StrValue(<<>>), IntValue(42), FloatValue(15), BoolValue(TRUE), None }
ImportFiles ==
    { [variables |-> [n \in d |-> StrValue(<<"v">>)], metadata |-> [n \in m |-> "text"]] :
        d \in SUBSET StoreNames \ {{}}, m \in SUBSET StoreNames }

\* the operations of the store on the given names, values and files
StoreOps(names, values, files) ==
    \/ \E name \in names, value \in values : SetVariableAuto(name, value)
    \/ \E name \in names, value \in values : UpdateVariable(name, value)
    \/ \E name \in names : DeleteVariable(name)
    \/ ClearVariables
    \/ \E file \in files, overwrite \in BOOLEAN : ImportVariables(file, overwrite)

NextStore == StoreOps(StoreNames, StoreValues, ImportFiles)

SpecStore == Init /\ [][NextStore]_vars

\* --------------------------------------------------------------- SpecRuns
\* The engine and the callers of its VariableManager: one task is run, its
\* website answering or failing, while user code sets, updates, deletes,
\* clears and imports variables.

\* the task of SpecRuns: one website, one content check
RunTasks ==
    { PatrolTask(<<"A">>, 1, checks, enabled, TRUE) :
        checks \in EngineChecks, enabled \in BOOLEAN }

\* the names user code works on: one of its own, and the status variable
\* the run writes
RunNames == { <<"u">>, VarName2("status", SafeUrl(SiteUrl(1)), SafeName(<<"A">>)) }
RunValues == { StrValue(<<"v">>), IntValue(42) }
RunFiles ==
    { [variables |-> [n \in d |-> StrValue(<<"v">>)], metadata |-> [n \in d |-> "text"]] :
        d \in SUBSET RunNames \ {{}} }

NextRuns ==
    \/ \E task \in RunTasks : InstallTask(task)
    \/ \E name \in TaskNames, t \in 1..MaxCalls : EngineExecute(name, t)
    \/ \E t \in Threads : ExecutePatrolTask(t)
    \/ \E t \in Threads : IssueRequest(t)
    \/ \E t \in Threads : RespondAnswered(t, FaultOuts)
    \/ \E t \in Threads : ExecuteEnd(t)
    \/ \E t \in Threads : CallReturns(t)
    \/ StoreOps(RunNames, RunValues, RunFiles)

SpecRuns == Init /\ [][NextRuns]_vars

\* -------------------------------------------------------------- SpecCheck
\* One call of _execute_patrol_check (patrol.py:374-673) for a content check
\* or an API check, as a function of the check, the task name and the
\* response.  Strings are sequences of characters.  A response is
\*   status, content_type   of the HTTP response
\*   content                the body
\*   elements               what the target selects in the body, in document
\*                          order; an element is [text, all_text]: text is
\*                          lxml's .text (None when the element begins with a
\*                          child or is empty), all_text what get_text() joins
\*   json                   json.loads(content): the leaves of the object by
\*                          their key paths, or NotJson when loads raises
\* pchk is [pc, check, task_name, response, result, writes].

\* the most elements a target selects
MaxElements == 2

\* sub in s
IsSubstring(sub, s) ==
    \E i \in 0..(Len(s) - Len(sub)) : SubSeq(s, i + 1, i + Len(sub)) = sub

\* s.startswith(prefix)
StartsWith(s, prefix) == Len(s) >= Len(prefix) /\ SubSeq(s, 1, Len(prefix)) = prefix

\* s.strip() for the whitespace " "
RECURSIVE Strip(_)
Strip(s) ==
    IF s = <<>> THEN s
    ELSE IF Head(s) = " " THEN Strip(Tail(s))
    ELSE IF s[Len(s)] = " " THEN Strip(SubSeq(s, 1, Len(s) - 1))
    ELSE s

\* s.split(sep) for a separator of one character
RECURSIVE Split(_, _)
Split(s, sep) ==
    LET seps == { i \in DOMAIN s : s[i] = sep } IN
    IF seps = {} THEN <<s>>
    ELSE LET i == CHOOSE k \in seps : \A j \in seps : k <= j
         IN  <<SubSeq(s, 1, i - 1)>> \o Split(SubSeq(s, i + 1, Len(s)), sep)

\* re.search(pattern, text) for the patterns of SpecCheck: literal
\* characters, "^" at the start of the pattern, and "(" with no ")", which
\* re.compile rejects with re.error
ReSearch(pattern, text) ==
    IF \E i \in DOMAIN pattern : pattern[i] = "("
    THEN [error |-> TRUE, found |-> FALSE]
    ELSE IF pattern # <<>> /\ Head(pattern) = "^"
    THEN [error |-> FALSE, found |-> StartsWith(text, Tail(pattern))]
    ELSE [error |-> FALSE, found |-> IsSubstring(pattern, text)]

\* PatrolCheck(name, type, target, expected_value, tolerance): the fields
\* _execute_patrol_check reads; expected_value and tolerance are None or a
\* non-empty string (patrol_config.py:252-254)
PatrolCheckOf(name, type, target, expected_value, tolerance) ==
    [name |-> name, type |-> type, target |-> target,
     expected_value |-> expected_value, tolerance |-> tolerance]

\* patrol.py:378-385  check_result as created; message is the list of the
\* parts the code appends
NewCheckResult ==
    [success |-> FALSE, value |-> None, extracted_value |-> None,
     validation_success |-> None, message |-> <<>>]

\* patrol.py:394-415  the XPath branch: the .text of the first element;
\* when that is None the slice extracted_value[:100] raises TypeError and
\* the except clause replaces the message
XPathExtract(elements) ==
    IF elements = <<>>
    THEN [NewCheckResult EXCEPT !.message = <<"xpath_none">>]
    ELSE IF elements[1].text = None
    THEN [NewCheckResult EXCEPT !.value = IntValue(Len(elements)),
                                !.message = <<"xpath_error">>]
    ELSE [NewCheckResult EXCEPT !.extracted_value = elements[1].text,
                                !.value = IntValue(Len(elements)),
                                !.message = <<"xpath_found">>]

\* patrol.py:416-425  the CSS branch: get_text(strip=True) of the first element
CssExtract(elements) ==
    IF elements = <<>>
    THEN [NewCheckResult EXCEPT !.message = <<"css_none">>]
    ELSE [NewCheckResult EXCEPT !.extracted_value = StrValue(Strip(elements[1].all_text)),
                                !.value = IntValue(Len(elements)),
                                !.message = <<"css_found">>]

\* patrol.py:435-446  validation_success and the regex error
Validate(tolerance, expected, extracted) ==
    CASE tolerance = StrValue(<<"e", "x", "a", "c", "t">>) ->
             [ok |-> extracted = expected, error |-> FALSE]
      [] tolerance = StrValue(<<"r", "e", "g", "e", "x">>) ->
             LET m == ReSearch(expected, extracted)
             IN  [ok |-> ~m.error /\ m.found, error |-> m.error]
      [] OTHER -> [ok |-> IsSubstring(expected, extracted), error |-> FALSE]

\* patrol.py:388-460  the content check
ContentCheck(check, response) ==
    LET r0 == IF StartsWith(check.target, <<"/">>)
              THEN XPathExtract(response.elements)
              ELSE CssExtract(response.elements)
    IN  IF r0.extracted_value # None
        THEN IF check.expected_value # None
             THEN LET v == Validate(check.tolerance, check.expected_value.s,
                                    r0.extracted_value.s)
                  IN  [r0 EXCEPT !.success = v.ok,
                                 !.validation_success = BoolValue(v.ok),
                                 !.message = @ \o (IF v.error THEN <<"regex_error">> ELSE <<>>)
                                               \o <<"validation">>]
             ELSE [r0 EXCEPT !.success = TRUE]
        ELSE IF check.expected_value # None
        THEN LET found == IsSubstring(check.expected_value.s, response.content)
             IN  [r0 EXCEPT !.success = found, !.value = BoolValue(found),
                            !.message = <<"text_search">>]
        ELSE r0

\* the parsed body: NotJson, or the leaves of the object by key path
NotJson == [loads |-> FALSE, leaves |-> {}]
JsonObject(leaves) == [loads |-> TRUE, leaves |-> leaves]

\* patrol.py:475-482  the value at the target: value[key] along the split
\* target, which raises KeyError or TypeError when a key is missing, or
\* json_data.get(target), which gives None; [raised, value]
JsonObjectText == <<"{", "}">>
JsonExtract(json, target) ==
    LET keys == Split(target, ".")
        at(path) == { l \in json.leaves : l.path = path }
        under(path) == { l \in json.leaves :
                           Len(l.path) > Len(path) /\ SubSeq(l.path, 1, Len(path)) = path }
    IN  IF ~json.loads THEN [raised |-> TRUE, value |-> <<>>]
        ELSE IF at(keys) # {}
        THEN [raised |-> FALSE, value |-> (CHOOSE l \in at(keys) : TRUE).leaf]
        ELSE IF under(keys) # {}
        THEN [raised |-> FALSE, value |-> JsonObjectText]
        ELSE IF Len(keys) = 1
        THEN [raised |-> FALSE, value |-> <<"N", "o", "n", "e">>]
        ELSE [raised |-> TRUE, value |-> <<>>]

\* patrol.py:462-487  the API check
ApiCheck(check, response) ==
    LET r0 == [NewCheckResult EXCEPT !.success = (response.status = 200),
                                     !.value = IntValue(response.status),
                                     !.message = <<"api_status">>]
        x  == JsonExtract(response.json, check.target)
    IN  IF check.target # <<>> /\ response.content_type # None
           /\ IsSubstring(<<"j", "s", "o", "n">>, response.content_type.s)
        THEN IF x.raised
             THEN [r0 EXCEPT !.message = @ \o <<"json_failed">>]
             ELSE [r0 EXCEPT !.extracted_value = StrValue(x.value),
                             !.message = @ \o <<"json_value">>]
        ELSE r0

\* bool(x) of None or a str
Truthy(x) == x # None /\ x.s # <<>>

\* patrol.py:605-663  the variables written for the check result r, as
\* <<name, type>> in the order of the writes
ResultWrites(check, task_name, r) ==
    LET c == SafeName(check.name)
        k == SafeName(task_name)
    IN  << <<VarName2("status", c, k), "text">>,
           <<VarName2("timestamp", c, k), "text">> >>
        \o (CASE check.type = "content_check" /\ Truthy(r.extracted_value) ->
                     << <<VarName2("extracted", c, k), "text">> >>
                     \o (IF r.validation_success # None
                         THEN << <<VarName2("validation", c, k), "text">> >>
                         ELSE <<>>)
              [] check.type = "api_check" ->
                     << <<VarName2("api_status", c, k), "number">> >>
                     \o (IF Truthy(r.extracted_value)
                         THEN << <<VarName2("api_response", c, k), "text">> >>
                         ELSE <<>>)
              [] OTHER -> <<>>)

\* patrol.py:374-673  _execute_patrol_check(check, task, url, content, response)
ExecutePatrolCheck(check, task_name, response) ==
    LET r == IF check.type = "content_check" THEN ContentCheck(check, response)
             ELSE ApiCheck(check, response)
    IN  [result |-> r, writes |-> ResultWrites(check, task_name, r)]

\* the inputs of SpecCheck
CheckNames == { <<"a">>, <<"a", " ", "b">>, <<"a", "-", "b">>, <<"a", ".", "b">> }
CheckTaskNames == { <<"T">>, <<"T", "/", "1">> }
Elements ==
    { [text |-> None, all_text |-> <<>>],
      [text |-> None, all_text |-> <<"a", "b">>],
      [text |-> StrValue(<<"a", "b">>), all_text |-> <<"a", "b">>],
      [text |-> StrValue(<<" ", "a", " ">>), all_text |-> <<" ", "a", " ">>] }
Contents == { <<"a", "b">>, <<" ", "a", " ">>, <<"x">> }
Expected ==
    { None, StrValue(<<"a", "b">>), StrValue(<<"a">>), StrValue(<<"^", "b">>),
      StrValue(<<"(">>) }
Tolerances ==
    { None, StrValue(<<"e", "x", "a", "c", "t">>), StrValue(<<"r", "e", "g", "e", "x">>),
      StrValue(<<"c", "o", "n", "t", "a", "i", "n", "s">>) }
ContentTargets == { <<"/", "/", "p">>, <<"p">> }
ContentChecks ==
    { PatrolCheckOf(name, "content_check", target, expected, tolerance) :
        name \in CheckNames, target \in ContentTargets, expected \in Expected,
        tolerance \in Tolerances }
\* the pages: the text of every selected element is in the body
ContentResponses ==
    { r \in [status : {200}, content_type : {StrValue(<<"h", "t", "m", "l">>)},
             content : Contents,
             elements : UNION { [1..n -> Elements] : n \in 0..MaxElements },
             json : {NotJson}] :
        \A i \in DOMAIN r.elements : IsSubstring(r.elements[i].all_text, r.content) }
ApiTargets == { <<"k">>, <<"z">>, <<"d", ".", "k">>, <<"d", ".", "z">>, <<"k", ".", "z">> }
ApiChecks ==
    { PatrolCheckOf(name, "api_check", target, None, None) :
        name \in CheckNames, target \in ApiTargets }
ApiJson ==
    { NotJson,
      JsonObject({ [path |-> << <<"k">> >>, leaf |-> <<"v">>],
                   [path |-> << <<"d">>, <<"k">> >>, leaf |-> <<"w">>] }) }
ApiResponses ==
    { [status |-> status, content_type |-> content_type, content |-> <<"x">>,
       elements |-> <<>>, json |-> json] :
        status \in {200, 404},
        content_type \in { None, StrValue(<<"h", "t", "m", "l">>),
                           StrValue(<<"a", "/", "j", "s", "o", "n">>) },
        json \in ApiJson }
CheckInputs ==
    { [check |-> c, response |-> r] : c \in ContentChecks, r \in ContentResponses }
    \cup { [check |-> c, response |-> r] : c \in ApiChecks, r \in ApiResponses }

InitCheck ==
    /\ EngineIdle
    /\ site = <<>>
    /\ auth = <<>>
    /\ calc = <<>>
    /\ vm = <<>>
    /\ subst = <<>>
    /\ \E input \in CheckInputs, task_name \in CheckTaskNames :
          pchk = [pc |-> "input", check |-> input.check, task_name |-> task_name,
                  response |-> input.response, result |-> NewCheckResult,
                  writes |-> <<>>]
    /\ tick = <<>>
    /\ sched = <<>>

\* check_result = await self._execute_patrol_check(check, task, ...)
ExecuteCheck ==
    /\ pchk.pc = "input"
    /\ LET x == ExecutePatrolCheck(pchk.check, pchk.task_name, pchk.response)
       IN  pchk' = [pchk EXCEPT !.pc = "done", !.result = x.result, !.writes = x.writes]
    /\ UNCHANGED <<engine_vars, site, auth, calc, vm, subst, tick, sched>>

NextCheck == ExecuteCheck

SpecCheck == InitCheck /\ [][NextCheck]_vars

\* --------------------------------------------------------------- SpecTick
\* The widget's schedule timer (patrol_widget.py:254-256, 930-949) with the
\* handlers that change what it reads.  tick is
\*   tasks              PatrolEngine.tasks: per name NoEntry or the task
\*                      object's [enabled, next_run]; next_run is NoInstant
\*                      for None
\*   execution_threads  per name the thread registered, or NoThread
\*   runs               the PatrolExecutionThread objects: pc "none" not
\*                      created, "running", "finished" run() has returned and
\*                      the finished signal is queued, "done" cleaned up
\*   now                datetime.now()
\* Every task is daily at 09:00.

\* the most threads that are created
MaxRuns == 2
\* the last day of the clock
MaxTickDay == 2

TickNames == { <<"A">>, <<"B">> }
Runs == 1..MaxRuns
NoEntry == [present |-> FALSE, enabled |-> FALSE, next_run |-> NoInstant]
NewEntry(enabled) == [present |-> TRUE, enabled |-> enabled, next_run |-> NoInstant]
NoRun == [pc |-> "none", task_name |-> <<>>, is_cancelled |-> FALSE]
TickSchedule ==
    [frequency |-> "daily", start_time |-> <<"0", "9", ":", "0", "0">>,
     multiple_times |-> <<>>, custom_schedule |-> FALSE]
TickHours == {8, 9, 10}

InitTick ==
    /\ EngineIdle
    /\ site = <<>>
    /\ auth = <<>>
    /\ calc = <<>>
    /\ vm = <<>>
    /\ subst = <<>>
    /\ pchk = <<>>
    /\ tick = [tasks |-> [n \in TickNames |-> NoEntry],
               execution_threads |-> [n \in TickNames |-> NoThread],
               runs |-> [t \in Runs |-> NoRun],
               now |-> Instant(0, 8, 0, 0)]
    /\ sched = <<>>

tick_others == <<engine_vars, site, auth, calc, vm, subst, pchk, sched>>

\* patrol_widget.py:563-596  execute_patrol_task(task_name) on the widget
\* state w; confirm is the user's answer to "the task is disabled, run it
\* anyway?".  The thread created is the first one not yet created.
WidgetExecutePatrolTask(w, task_name, confirm) ==
    LET free == { t \in Runs : w.runs[t].pc = "none" }
        t == CHOOSE x \in free : \A y \in free : x <= y
    IN  IF w.execution_threads[task_name] # NoThread THEN w
        ELSE IF ~w.tasks[task_name].present THEN w
        ELSE IF ~w.tasks[task_name].enabled /\ ~confirm THEN w
        ELSE [w EXCEPT !.execution_threads[task_name] = t,
                       !.runs[t] = [NoRun EXCEPT !.pc = "running",
                                                 !.task_name = task_name]]

\* a thread can still be created for every call the step makes
CanCreate(w, calls) == Cardinality({ t \in Runs : w.runs[t].pc = "none" }) >= calls

\* the tasks for which a tick creates a thread
TickStarts(w) ==
    { n \in TickNames :
        /\ w.tasks[n].present /\ w.tasks[n].enabled
        /\ w.tasks[n].next_run # NoInstant
        /\ Stamp(w.tasks[n].next_run) <= Stamp(w.now)
        /\ w.execution_threads[n] = NoThread }

\* patrol_widget.py:934-949  one iteration of the loop of check_scheduled_tasks
CheckTask(w, task_name) ==
    LET task == w.tasks[task_name]
        next_run == IF task.next_run = NoInstant
                    THEN CalculateNextRunTime(TickSchedule, w.now)
                    ELSE task.next_run
        w1 == [w EXCEPT !.tasks[task_name].next_run = next_run]
    IN  IF ~task.present \/ ~task.enabled THEN w
        ELSE IF Stamp(next_run) <= Stamp(w.now)
        THEN [WidgetExecutePatrolTask(w1, task_name, FALSE) EXCEPT
                  !.tasks[task_name].next_run = CalculateNextRunTime(TickSchedule, w.now)]
        ELSE w1

\* the loop over list_patrol_tasks(), in the order of the dict
RECURSIVE CheckTasks(_, _)
CheckTasks(w, names) ==
    IF names = <<>> THEN w ELSE CheckTasks(CheckTask(w, Head(names)), Tail(names))

\* patrol_widget.py:930-949  check_scheduled_tasks(), on the timer's timeout
CheckScheduledTasks ==
    /\ CanCreate(tick, Cardinality(TickStarts(tick)))
    /\ tick' = CheckTasks(tick, << <<"A">>, <<"B">> >>)
    /\ UNCHANGED tick_others

\* patrol_widget.py:465-473  add_patrol_task(): the dialog's task is added
TickAddTask(task_name, enabled) ==
    /\ ~tick.tasks[task_name].present
    /\ tick' = [tick EXCEPT !.tasks[task_name] = NewEntry(enabled)]
    /\ UNCHANGED tick_others

\* patrol_widget.py:475-500  edit_patrol_task(): the task is removed and
\* the dialog's task added under the name
TickEditTask(task_name, enabled) ==
    /\ tick.tasks[task_name].present
    /\ tick' = [tick EXCEPT !.tasks[task_name] = NewEntry(enabled)]
    /\ UNCHANGED tick_others

\* patrol_widget.py:502-534  delete_patrol_task(): the task is removed, its
\* registered thread is told to cancel and its entry deleted
TickDeleteTask(task_name) ==
    /\ tick.tasks[task_name].present
    /\ LET t == tick.execution_threads[task_name] IN
       tick' = IF t = NoThread
               THEN [tick EXCEPT !.tasks[task_name] = NoEntry]
               ELSE [tick EXCEPT !.tasks[task_name] = NoEntry,
                                 !.runs[t].is_cancelled = TRUE,
                                 !.execution_threads[task_name] = NoThread]
    /\ UNCHANGED tick_others

\* the user's "execute" on a task of the table
TickExecute(task_name, confirm) ==
    /\ tick.tasks[task_name].present
    /\ CanCreate(tick, 1)
    /\ tick' = WidgetExecutePatrolTask(tick, task_name, confirm)
    /\ tick' # tick
    /\ UNCHANGED tick_others

\* patrol_widget.py:39-63  run() returns
RunReturns(t) ==
    /\ tick.runs[t].pc = "running"
    /\ tick' = [tick EXCEPT !.runs[t].pc = "finished"]
    /\ UNCHANGED tick_others

\* patrol_widget.py:663-666  cleanup_thread(task_name) on the finished signal
TickCleanupThread(t) ==
    /\ tick.runs[t].pc = "finished"
    /\ tick' = [tick EXCEPT !.runs[t].pc = "done",
                            !.execution_threads[tick.runs[t].task_name] = NoThread]
    /\ UNCHANGED tick_others

\* the clock: to a later hour of the day, or to the morning of the next day
TimePasses ==
    /\ \/ \E h \in TickHours :
             /\ h > tick.now.hour
             /\ tick' = [tick EXCEPT !.now.hour = h]
       \/ /\ tick.now.day < MaxTickDay
          /\ tick' = [tick EXCEPT !.now = Instant(tick.now.day + 1, 8, 0, 0)]
    /\ UNCHANGED tick_others

NextTick ==
    \/ CheckScheduledTasks
    \/ \E task_name \in TickNames, enabled \in BOOLEAN : TickAddTask(task_name, enabled)
    \/ \E task_name \in TickNames, enabled \in BOOLEAN : TickEditTask(task_name, enabled)
    \/ \E task_name \in TickNames : TickDeleteTask(task_name)
    \/ \E task_name \in TickNames, confirm \in BOOLEAN : TickExecute(task_name, confirm)
    \/ \E t \in Runs : RunReturns(t)
    \/ \E t \in Runs : TickCleanupThread(t)
    \/ TimePasses

SpecTick == InitTick /\ [][NextTick]_vars

\* -------------------------------------------------------------- SpecSched
\* TaskScheduler (scheduling/scheduler.py) and the jobs of the schedule
\* module it registers.  sched is
\*   config_enabled  config.enabled of the scheduling configuration
\*   tasks           self.tasks: per name NoScheduled or the ScheduledTask's
\*                   [present, enabled]
\*   jobs            per tag, the jobs of the default scheduler of `schedule`
\*   is_running      self.is_running
\*   executed        per name, the runs of the task body at its latest due time

\* the most jobs registered under one tag
MaxJobs == 2

DefaultTasks == {"monitoring_check", "daily_report", "weekly_report", "cleanup"}
SchedNames == {"t"} \cup DefaultTasks
\* the names the callers pass
CallerNames == {"t", "daily_report"}
NoScheduled == [present |-> FALSE, enabled |-> FALSE]
ScheduledTask(enabled) == [present |-> TRUE, enabled |-> enabled]

InitSched ==
    /\ EngineIdle
    /\ site = <<>>
    /\ auth = <<>>
    /\ calc = <<>>
    /\ vm = <<>>
    /\ subst = <<>>
    /\ pchk = <<>>
    /\ tick = <<>>
    /\ \E config_enabled \in BOOLEAN :
          sched = [config_enabled |-> config_enabled,
                   tasks |-> [n \in SchedNames |-> NoScheduled],
                   jobs |-> [n \in SchedNames |-> 0],
                   is_running |-> FALSE,
                   executed |-> [n \in SchedNames |-> 0]]

sched_others == <<engine_vars, site, auth, calc, vm, subst, pchk, tick>>

\* scheduler.py:156-183  _setup_schedule(task): one more job with the
\* task's name as its tag
SetupSchedule(s, name) == [s EXCEPT !.jobs[name] = @ + 1]

\* scheduler.py:54-68  add_scheduled_task(name, schedule_expression, enabled)
AddScheduled(s, name, enabled) ==
    LET s1 == [s EXCEPT !.tasks[name] = ScheduledTask(enabled)]
    IN  IF enabled THEN SetupSchedule(s1, name) ELSE s1

\* a job can still be registered under the tag
CanRegister(s, name) == s.jobs[name] < MaxJobs

AddScheduledTask(name, enabled) ==
    /\ enabled => CanRegister(sched, name)
    /\ sched' = AddScheduled(sched, name, enabled)
    /\ UNCHANGED sched_others

\* scheduler.py:70-76  remove_scheduled_task(name)
RemoveScheduledTask(name) ==
    /\ sched.tasks[name].present
    /\ sched' = [sched EXCEPT !.jobs[name] = 0, !.tasks[name] = NoScheduled]
    /\ UNCHANGED sched_others

\* scheduler.py:78-83  enable_task(name)
EnableTask(name) ==
    /\ sched.tasks[name].present
    /\ CanRegister(sched, name)
    /\ sched' = SetupSchedule([sched EXCEPT !.tasks[name].enabled = TRUE], name)
    /\ UNCHANGED sched_others

\* scheduler.py:85-90  disable_task(name)
DisableTask(name) ==
    /\ sched.tasks[name].present
    /\ sched' = [sched EXCEPT !.tasks[name].enabled = FALSE, !.jobs[name] = 0]
    /\ UNCHANGED sched_others

\* scheduler.py:126-154  _setup_default_tasks()
RECURSIVE SetupDefaultTasks(_, _)
SetupDefaultTasks(s, names) ==
    IF names = <<>> THEN s
    ELSE SetupDefaultTasks(AddScheduled(s, Head(names), TRUE), Tail(names))

\* scheduler.py:92-111  start_scheduler() of a scheduler that is stopped
\* and enabled in the configuration
StartScheduler ==
    /\ ~sched.is_running
    /\ sched.config_enabled
    /\ \A n \in DefaultTasks : CanRegister(sched, n)
    /\ LET s1 == [sched EXCEPT !.is_running = TRUE] IN
       sched' = IF \A n \in SchedNames : ~sched.tasks[n].present
                THEN SetupDefaultTasks(s1, <<"monitoring_check", "daily_report",
                                             "weekly_report", "cleanup">>)
                ELSE s1
    /\ UNCHANGED sched_others

\* scheduler.py:92-100  start_scheduler() that returns at once
StartSchedulerIgnored ==
    /\ sched.is_running \/ ~sched.config_enabled
    /\ UNCHANGED vars

\* scheduler.py:113-124  stop_scheduler(): schedule.clear() drops every job
StopScheduler ==
    /\ sched.is_running \/ \E n \in SchedNames : sched.jobs[n] > 0
    /\ sched' = [sched EXCEPT !.is_running = FALSE,
                              !.jobs = [n \in SchedNames |-> 0]]
    /\ UNCHANGED sched_others

\* scheduler.py:185-208  run_pending() at a due time of the jobs tagged
\* name: every job calls _execute_task(name), which runs the task when it
\* is registered and enabled
RunPending(name) ==
    /\ sched.is_running
    /\ sched.jobs[name] > 0
    /\ sched' = [sched EXCEPT !.executed[name] =
                     IF sched.tasks[name].present /\ sched.tasks[name].enabled
                     THEN sched.jobs[name] ELSE 0]
    /\ UNCHANGED sched_others

NextSched ==
    \/ \E name \in CallerNames, enabled \in BOOLEAN : AddScheduledTask(name, enabled)
    \/ \E name \in CallerNames : RemoveScheduledTask(name)
    \/ \E name \in CallerNames : EnableTask(name)
    \/ \E name \in CallerNames : DisableTask(name)
    \/ StartScheduler
    \/ StartSchedulerIgnored
    \/ StopScheduler
    \/ \E name \in SchedNames : RunPending(name)

SpecSched == InitSched /\ [][NextSched]_vars

\* ================================================================ properties

\* C1  Single-flight: at no time are two executions of the same task name in
\* progress.
C1_SingleFlight ==
    \A t, u \in Threads :
        (t # u /\ Running(t) /\ Running(u))
            => threads[t].task_name # threads[u].task_name

\* the names the threads were created for are pairwise distinct
DistinctNames ==
    \A t, u \in Threads : t # u => threads[t].task_name # threads[u].task_name

\* C2  Executions of distinct task names that overlap run independently: no
\* website request of a run fails because the HTTP session was closed by the
\* completion of the other run.
C2_SessionStaysOpen ==
    DistinctNames =>
        \A t \in Threads : \A i \in DOMAIN threads[t].results :
            threads[t].results[i].error_message # "session_closed"

\* C4  A website result of one execute call is never delivered to the same
\* consumer (the widget's on_result_received) more than once.
C4_DeliveredOnce ==
    \A t \in Threads : \A i \in DOMAIN threads[t].delivered :
        threads[t].delivered[i] <= 1

\* the calls that went past the lookup and the enabled test: they hold
\* their task object
Started(t) == threads[t].task # NoTask

\* the run of t has returned its result list
Returned(t) == threads[t].pc = "finished" /\ threads[t].outcome = "completed"

\* C3  For an enabled task, execute returns exactly one PatrolResult per
\* entry of task.websites, the i-th result carrying the i-th website URL, and
\* the request for website i+1 is not issued before the result for website i
\* has been appended.
C3_OneResultPerWebsiteInOrder ==
    \A t \in Threads :
        Started(t) =>
            LET r == threads[t] IN
            /\ Len(r.results) <= Len(r.task.websites)
            /\ \A i \in DOMAIN r.results :
                   r.results[i].website_url = r.task.websites[i]
            /\ r.issued = Len(r.results) + (IF r.pc = "inflight" THEN 1 ELSE 0)
            /\ Returned(t) => Len(r.results) = Len(r.task.websites)

C3_Witness ==
    \E t \in Threads :
        /\ Started(t) /\ Returned(t)
        /\ Len(threads[t].results) = MaxSites
        /\ threads[t].results[MaxSites].website_url = SiteUrl(MaxSites)

\* the answers that are a failure of the website
Failures == {Http(500), Timeout, RequestError}

\* C5  A website that returns HTTP 500, times out or raises any other request
\* error yields a result with success false (status_code 500 in the first
\* case), and the run still ends normally with one result per website.
C5_FailureIsolated ==
    \A t \in Threads :
        LET r == threads[t] IN
        /\ \A i \in DOMAIN r.outs :
               r.outs[i] \in Failures =>
                   /\ ~r.results[i].success
                   /\ r.outs[i] = Http(500) => r.results[i].status_code = 500
        /\ (Started(t) /\ r.pc = "finished") =>
               /\ r.outcome = "completed"
               /\ Len(r.results) = Len(r.task.websites)

C5_Witness ==
    \E t \in Threads :
        /\ Started(t) /\ Returned(t)
        /\ Len(threads[t].results) = MaxSites
        /\ threads[t].outs[1] = Http(500)
        /\ threads[t].results[1].status_code = 500
        /\ threads[t].outs[MaxSites] = Http(200)
        /\ threads[t].results[MaxSites].success

\* C6  For a website that returned a response, result.success is true if and
\* only if the status code is 200, 201 or 202 and every check that was run
\* against the website succeeded.
C6_SuccessIsStrictest ==
    (site.pc = "done" /\ site.env.out.kind = "http") =>
        (site.result.success <=>
            /\ site.result.status_code \in {200, 201, 202}
            /\ \A i \in DOMAIN site.ran : site.ran[i][2])

C6_Witness ==
    /\ site.pc = "done"
    /\ site.env.out = Http(200)
    /\ Len(site.ran) = 2
    /\ site.ran[1][2] /\ ~site.ran[2][2]
    /\ ~site.result.success

\* C7  If an observer callback raises, the exception is not propagated: every
\* registered callback is still invoked for that result, the result is
\* appended, the remaining websites are checked and execute returns the full
\* result list.
C7_ObserverIsolated ==
    /\ [](\A t \in Threads :
             (threads[t].raised /\ threads[t].pc = "finished") =>
                 /\ threads[t].outcome = "completed"
                 /\ Len(threads[t].results) = Len(threads[t].task.websites))
    /\ [][\A t \in Threads :
             (threads[t].pc = "inflight" /\ threads'[t].pc # "inflight") =>
                 /\ threads'[t].pc = "loop"
                 /\ threads'[t].invoked = Len(result_callbacks)
                 /\ Len(threads'[t].results) = Len(threads[t].results) + 1]_vars

C7_Witness ==
    \E t \in Threads :
        /\ threads[t].raised /\ Returned(t)
        /\ Len(threads[t].results) = MaxSites
        /\ Len(result_callbacks) >= 2
        /\ threads[t].invoked = Len(result_callbacks)

\* C8  A removal or a replacement (by a disabled task) of the registry entry
\* while execute(name) is running does not interrupt the run: the step leaves
\* the run where it was, the run checks every website its task had when it
\* started and returns the full list; an execute that finds the entry removed
\* or disabled starts no run.
C8_RunKeepsItsTask ==
    /\ [](\A t \in Threads :
             (Started(t) /\ threads[t].pc = "finished") =>
                 /\ threads[t].outcome = "completed"
                 /\ Len(threads[t].results) = Len(threads[t].task.websites)
                 /\ \A i \in DOMAIN threads[t].results :
                        threads[t].results[i].website_url = threads[t].task.websites[i])
    /\ [][\A t \in Threads :
             /\ (Running(t) /\ threads'[t].attached # threads[t].attached) =>
                    threads'[t] = [threads[t] EXCEPT !.attached = FALSE]
             /\ (/\ threads[t].pc = "execute" /\ threads'[t].pc # "execute"
                  /\ \/ tasks[threads[t].task_name] = NoTask
                     \/ ~tasks[threads[t].task_name].enabled) =>
                    (threads'[t].pc = "finished" /\ ~Started(t)')]_vars

C8_Witness ==
    \E t \in Threads :
        /\ Started(t) /\ Returned(t)
        /\ ~threads[t].attached
        /\ tasks[threads[t].task_name] = NoTask
        /\ Len(threads[t].results) = MaxSites

\* the step of call t that leaves the start of execute_patrol_task
LeavesExecute(t) == threads[t].pc = "execute" /\ threads'[t].pc # "execute"

\* C9  execute(name) for a name that is not in the registry fails with the
\* not-found error and changes nothing: no variable is written, no observer
\* is invoked, no request is issued and the registry is unchanged.
C9_NotFoundChangesNothing ==
    [][\A t \in Threads :
         (LeavesExecute(t) /\ tasks[threads[t].task_name] = NoTask) =>
             /\ threads'[t] = [threads[t] EXCEPT !.pc = "finished",
                                                  !.outcome = "not_found"]
             /\ threads'[t].issued = 0 /\ threads'[t].invoked = 0
             /\ threads'[t].results = <<>>
             /\ UNCHANGED <<tasks, result_callbacks, session, closed, variables,
                            variable_metadata, now>>]_vars

C9_Witness ==
    \E t \in Threads :
        /\ threads[t].pc = "finished" /\ threads[t].outcome = "not_found"
        /\ tasks[threads[t].task_name] = NoTask
        /\ threads[t].issued = 0

\* C10  execute(name) for a disabled task returns an empty result sequence,
\* issues no request, writes no variable (the time-stamp variables included),
\* invokes no observer and leaves last_run and run_count unchanged.
C10_DisabledIsNoOp ==
    [][\A t \in Threads :
         (/\ LeavesExecute(t)
          /\ tasks[threads[t].task_name] # NoTask
          /\ ~tasks[threads[t].task_name].enabled) =>
             /\ threads'[t] = [threads[t] EXCEPT !.pc = "finished",
                                                  !.outcome = "completed"]
             /\ threads'[t].results = <<>>
             /\ threads'[t].issued = 0 /\ threads'[t].invoked = 0
             /\ UNCHANGED <<tasks, result_callbacks, session, closed, variables,
                            variable_metadata, now>>]_vars

C10_Witness ==
    \E t \in Threads :
        /\ Returned(t) /\ ~Started(t)
        /\ tasks[threads[t].task_name] # NoTask
        /\ ~tasks[threads[t].task_name].enabled
        /\ threads[t].results = <<>>
        /\ tasks[threads[t].task_name].run_count = 0

\* C11  For a website that returned a response, the names in check_results
\* are exactly the names of the task's checks that are enabled and whose
\* associated_url is unset or equal to the URL; no other check is run, and
\* the checks run in task.checks order.
C11_ExactlyApplicableChecksRun ==
    (site.pc = "done" /\ site.env.out.kind = "http") =>
        LET checks == site.task.checks
            app == { i \in DOMAIN checks :
                       /\ checks[i].enabled
                       /\ \/ checks[i].associated_url = NoUrl
                          \/ checks[i].associated_url = site.url }
        IN  /\ DOMAIN site.result.check_results = { checks[i].name : i \in app }
            /\ { site.ran[j][1] : j \in DOMAIN site.ran } = app
            /\ \A j, k \in DOMAIN site.ran :
                   j < k => site.ran[j][1] < site.ran[k][1]

C11_Witness ==
    /\ site.pc = "done"
    /\ site.env.out.kind = "http"
    /\ Len(site.task.checks) = 2
    /\ site.task.checks[1].associated_url = SiteUrl(2)
    /\ Len(site.ran) = 1
    /\ site.ran[1][1] = 2

\* C12  A check that fails or raises is isolated: the remaining applicable
\* checks of the website are executed and have their entry in check_results,
\* the website's result is appended and fails, and the run goes on to the
\* remaining websites and returns one result per website.
C12_CheckFailureIsolated ==
    \A t \in Threads :
        LET r == threads[t] IN
        /\ \A i \in DOMAIN r.results :
               r.outs[i].kind = "http" =>
                   /\ DOMAIN r.results[i].check_results =
                          { r.task.checks[k].name : k \in DOMAIN r.task.checks }
                   /\ \A k \in DOMAIN r.task.checks :
                          r.results[i].check_results[r.task.checks[k].name]
                              = r.answers[i][k].ok
                   /\ (\E k \in DOMAIN r.task.checks : ~r.answers[i][k].ok)
                          => ~r.results[i].success
        /\ (Started(t) /\ r.pc = "finished") =>
               /\ r.outcome = "completed"
               /\ Len(r.results) = Len(r.task.websites)

C12_Witness ==
    \E t \in Threads :
        /\ Started(t) /\ Returned(t)
        /\ Len(threads[t].results) = MaxSites
        /\ threads[t].outs[1] = Http(200)
        /\ threads[t].answers[1][1].raised
        /\ DOMAIN threads[t].results[1].check_results = {<<"c", "1">>, <<"c", "2">>}
        /\ threads[t].results[1].check_results[<<"c", "2">>]
        /\ ~threads[t].results[1].success
        /\ threads[t].results[MaxSites].success

\* C13  When the authentication of a task whose auth type is not "none"
\* fails, the website's GET is issued with empty headers and cookies,
\* whatever authentications succeeded earlier.
C13_FailedAuthSendsNothing ==
    (auth.gets > 0 /\ auth.get.failed) =>
        (auth.get.headers = <<>> /\ auth.get.cookies = <<>>)

\* the four time-stamp variables of the task of run t hold the formats of
\* the run's patrol_time
TimeStamped(t) ==
    LET k == SafeName(threads[t].task.name)
        T == threads[t].patrol_time
        holds(name, fmt) == /\ name \in DOMAIN variables
                            /\ variables[name] = Strftime(T, fmt)
    IN  /\ holds(VarName1("patrol_time", k), "%H:%M:%S")
        /\ holds(VarName1("patrol_time_formatted", k), "%YY%mM%dD %H:%M:%S")
        /\ holds(VarName1("patrol_date", k), "%Y-%m-%d")
        /\ holds(VarName1("patrol_datetime", k), "%Y-%m-%d %H:%M:%S")

\* C14  In every execute of an enabled task the four time-stamp variables
\* of the task are written before the first website request and before any
\* observer is invoked, all from the run's one instant patrol_time, which is
\* the last_run recorded when the run completes; they are present after the
\* run, whatever the website list and the outcomes were.
C14_TimeStampsOfTheRun ==
    \A t \in Threads :
        LET r == threads[t] IN
        /\ (r.issued > 0 \/ r.results # <<>> \/ r.delivered # <<>>) => Started(t)
        /\ Started(t) => (r.patrol_time # NoTime /\ TimeStamped(t))
        /\ (Started(t) /\ Returned(t) /\ r.attached)
               => tasks[r.task_name].last_run = r.patrol_time

C14_Witness ==
    \E t \in Threads :
        /\ Started(t) /\ Returned(t) /\ threads[t].attached
        /\ TimeStamped(t)
        /\ tasks[threads[t].task_name].last_run = threads[t].patrol_time
        /\ Len(threads[t].results) = MaxSites
        /\ \A i \in DOMAIN threads[t].results : ~threads[t].results[i].success
        /\ ObserverCount(result_callbacks) > 0

\* the time of day a time string names, in minutes
MinuteOfDay(s) == SplitTime(s).hour * 60 + SplitTime(s).minute

\* the instant of day d at minute m of the day
AtMinute(d, m) == Instant(d, m \div 60, m % 60, 0)

\* C15  For frequency weekly, the next run is the next occurrence of Monday
\* at start_time strictly after now; on a Monday whose start_time has
\* passed that is the Monday of the next week.
C15_WeeklyIsNextMonday ==
    (calc.pc = "done" /\ calc.task.frequency = "weekly") =>
        LET m == MinuteOfDay(calc.task.start_time)
            mondays == { d \in calc.now.day..(calc.now.day + 7) :
                           d % 7 = 0 /\ Stamp(AtMinute(d, m)) > Stamp(calc.now) }
            first == CHOOSE d \in mondays : \A e \in mondays : d <= e
        IN  calc.next_run = AtMinute(first, m)

\* C16  For frequency multiple_daily with non-empty multiple_times, the next
\* run is today at the earliest listed time of day strictly after now's
\* time of day, and tomorrow at the earliest listed time of day if no
\* listed time remains today.
C16_MultipleDailyIsEarliestRemaining ==
    (calc.pc = "done" /\ calc.task.frequency = "multiple_daily"
                      /\ calc.task.multiple_times # <<>>) =>
        LET listed == { MinuteOfDay(calc.task.multiple_times[k]) :
                            k \in DOMAIN calc.task.multiple_times }
            left == { m \in listed :
                        m * 60 > (calc.now.hour * 60 + calc.now.minute) * 60
                                     + calc.now.second }
            least(S) == CHOOSE m \in S : \A n \in S : m <= n
        IN  calc.next_run = IF left # {} THEN AtMinute(calc.now.day, least(left))
                            ELSE AtMinute(calc.now.day + 1, least(listed))

\* C17  For frequency daily, the next run is the next occurrence of
\* start_time strictly after now: it is at start_time, it is after now, and
\* the same time one day earlier is not after now; so it is today when now
\* is before start_time and tomorrow otherwise, now = start_time included.
C17_DailyIsNextOccurrence ==
    (calc.pc = "done" /\ calc.task.frequency = "daily") =>
        LET m == MinuteOfDay(calc.task.start_time)
            r == calc.next_run
        IN  /\ r = AtMinute(r.day, m)
            /\ Stamp(r) > Stamp(calc.now)
            /\ Stamp([r EXCEPT !.day = @ - 1]) <= Stamp(calc.now)
            /\ r.day \in {calc.now.day, calc.now.day + 1}

C17_Witness ==
    /\ calc.pc = "done"
    /\ calc.task.frequency = "daily"
    /\ calc.now = AtMinute(calc.now.day, MinuteOfDay(calc.task.start_time))
    /\ calc.next_run = [calc.now EXCEPT !.day = @ + 1]

\* C18  A reader running concurrently with set_variable observes a complete
\* variable, the value of one call with the type and description of the same
\* call, never a value paired with the metadata of another call or with no
\* metadata; and concurrent sets are serialized, so that the stored variable
\* is complete whenever no set is in progress.
C18_NoTornVariable ==
    /\ ~vm.result.none =>
           \E call \in vm.calls : /\ vm.result.value = call.value
                                  /\ vm.result.metadata = Metadata(call)
    /\ ((\A w \in Writers : vm.set[w] = NoCall) /\ VarX \in DOMAIN vm.variables) =>
           \E call \in vm.calls : /\ vm.variables[VarX] = call.value
                                  /\ VarX \in DOMAIN vm.metadata
                                  /\ vm.metadata[VarX] = Metadata(call)

\* C19  substitute(text) replaces every occurrence of ${name} by str(value)
\* for every name that exists in the store, leaves every other placeholder
\* as written and changes nothing else in the text.
C19_EveryStoredNameReplaced ==
    subst.pc # "input" =>
        LET t == subst.text
            at(i, name) == /\ i + Len(name) + 2 <= Len(t)
                           /\ SubSeq(t, i, i + Len(name) + 2)
                                  = <<"$", "{">> \o name \o <<"}">>
            RECURSIVE expected(_)
            expected(i) ==
                IF i > Len(t) THEN <<>>
                ELSE IF \E name \in DOMAIN subst.store : at(i, name)
                     THEN LET name == CHOOSE n \in DOMAIN subst.store : at(i, n)
                          IN  Str(subst.store[name]) \o expected(i + Len(name) + 3)
                     ELSE <<t[i]>> \o expected(i + 1)
        IN  subst.once = expected(1)

\* a match of the pattern ${...} somewhere in the text s
HasPlaceholder(s) ==
    \E i, j \in DOMAIN s :
        /\ j > i + 2
        /\ s[i] = "$" /\ s[i + 1] = "{" /\ s[j] = "}"
        /\ \A k \in (i + 2)..(j - 1) : s[k] # "}"

\* no stored value is empty or has one of the characters of a placeholder
PlainValues(store) ==
    \A n \in DOMAIN store :
        store[n] # None =>
            /\ Str(store[n]) # <<>>
            /\ \A k \in DOMAIN Str(store[n]) : Str(store[n])[k] \notin {"$", "{", "}"}

\* the placeholder of a stored name, alone, gives str(value) as it is, a
\* ${...} inside the value included
SinglePass ==
    (subst.pc # "input" /\ \E n \in DOMAIN subst.store :
            /\ subst.store[n] # None
            /\ subst.text = <<"$", "{">> \o n \o <<"}">>)
      => LET n == SubSeq(subst.text, 3, Len(subst.text) - 1)
         IN  subst.once = Str(subst.store[n])

\* C20 as stated: substitution is a single pass, and when no stored value
\* contains a placeholder, substitute(substitute(t)) = substitute(t).
C20_IdempotentWithoutNestedPlaceholders ==
    /\ SinglePass
    /\ (subst.pc = "twice"
            /\ \A n \in DOMAIN subst.store : ~HasPlaceholder(Str(subst.store[n])))
          => subst.twice = subst.once

\* C20  Substitution is a single pass: a substituted value that contains
\* ${...} is not expanded again; and when every stored value is non-empty
\* and has none of the characters $, { and }, substitute(substitute(t)) =
\* substitute(t) for every text t.
C20_SinglePassAndIdempotent ==
    /\ SinglePass
    /\ (subst.pc = "twice" /\ PlainValues(subst.store))
          => subst.twice = subst.once

C20_Witness ==
    /\ subst.pc = "twice"
    /\ PlainValues(subst.store)
    /\ DOMAIN subst.store = {<<"x">>, <<"y">>}
    /\ subst.store[<<"x">>] = IntValue(42)
    /\ subst.text = <<"$", "$", "{", "x", "}", "{", "y", "}">>
    /\ subst.once = <<"$", "4", "2", "{", "y", "}">>
    /\ subst.twice = subst.once

\* C21  set with type "auto" records the type inferred from the value: image
\* for a string ending in an image extension, file for a string naming an
\* existing path, number for a numeric value, boolean for True and False, and
\* text otherwise.
C21_AutoTypeFollowsValue ==
    [][\A name \in StoreNames, value \in StoreValues :
          SetVariableAuto(name, value) =>
              variable_metadata'[name] =
                  CASE value.kind = "str"
                           /\ \E ext \in ImageExtensions : EndsWith(value.s, ext) -> "image"
                    [] value.kind = "str" /\ value.s \in ExistingPaths -> "file"
                    [] value.kind \in {"int", "float"} -> "number"
                    [] value.kind = "bool" -> "boolean"
                    [] OTHER -> "text"]_vars

\* the types a variable can be asked for by type
VariableTypes == {"image", "file", "text", "number", "boolean"}

\* C29  After any sequence of set, update, delete, clear and import
\* operations the names that have a value are the names that have metadata,
\* and every stored variable is returned by exactly one of the by-type
\* queries.
C29_ValuesAndMetadataAgree ==
    /\ DOMAIN variables = DOMAIN variable_metadata
    /\ \A n \in DOMAIN variables :
           \E type \in VariableTypes :
               /\ n \in DOMAIN GetVariablesByType(type)
               /\ \A other \in VariableTypes \ {type} :
                      n \notin DOMAIN GetVariablesByType(other)

\* C22  Variables are never deleted automatically: in every step of the
\* runs of a task, whatever their outcome, and of the set, update and import
\* operations, every name of the store stays in the store; the only steps
\* that remove a name are delete_variable and clear_variables.
C22_NamesNeverShrink ==
    [][\/ DOMAIN variables \subseteq DOMAIN variables'
       \/ \E name \in RunNames : DeleteVariable(name)
       \/ ClearVariables]_vars

\* a run has failed and returned, and the user's name and the names the
\* run wrote earlier are in the store
C22_Witness ==
    /\ \E t \in Threads :
          /\ threads[t].pc = "finished"
          /\ Len(threads[t].results) = 1
          /\ ~threads[t].results[1].success
    /\ <<"u">> \in DOMAIN variables
    /\ \E n \in DOMAIN variables : n \notin RunNames

\* C27  For every frequency (daily, multiple_daily with or without times,
\* weekly, monthly, custom with or without a schedule) and every now,
\* calculate_next_run_time returns an instant strictly later than now, and
\* the call leaves the task, its last_run, next_run and run_count included,
\* as it was.
C27_NextRunAfterNow ==
    [][(calc.pc = "input" /\ calc'.pc = "done") =>
           /\ Stamp(calc'.next_run) > Stamp(calc.now)
           /\ calc'.task = calc.task
           /\ calc'.now = calc.now]_vars

\* a weekly task computed on a Monday after its start time: the run is on
\* the Monday of the next week
C27_Witness ==
    /\ calc.pc = "done"
    /\ calc.task.frequency = "weekly"
    /\ Weekday(calc.now) = 0
    /\ Stamp(AtTime(calc.now, calc.task.start_time)) < Stamp(calc.now)
    /\ calc.next_run.day = calc.now.day + 7
    /\ calc.task.next_run = NoInstant
    /\ calc.task.run_count = 0

\* C28  After execute(name) has returned, for every website of the task the
\* variable status_<url>_<task> is stored and equals the success flag of
\* that website's PatrolResult of this run.
C28_StatusVariableOfThisRun ==
    \A t \in Threads :
        (threads[t].pc = "finished" /\ threads[t].outcome = "completed") =>
            \A i \in DOMAIN threads[t].results :
                LET r == threads[t].results[i]
                    status == VarName2("status", SafeUrl(r.website_url),
                                       SafeName(threads[t].task.name))
                IN  /\ status \in DOMAIN variables
                    /\ variables[status] = StatusText(r.success)

\* C23  Every variable the check executor derives is named
\* <kind>_<safe(check.name)>_<safe(task.name)>, where safe(x) is x with every
\* character outside [A-Za-z0-9_] removed, so that the check-name and
\* task-name parts of the name contain only characters of [A-Za-z0-9_].
C23_DerivedNamesAreSafe ==
    pchk.pc = "done" =>
        LET allowed == { "a", "b", "c", "d", "e", "f", "g", "h", "i", "j", "k", "l", "m",
                         "n", "o", "p", "q", "r", "s", "t", "u", "v", "w", "x", "y", "z",
                         "A", "B", "C", "D", "E", "F", "G", "H", "I", "J", "K", "L", "M",
                         "N", "O", "P", "Q", "R", "S", "T", "U", "V", "W", "X", "Y", "Z",
                         "0", "1", "2", "3", "4", "5", "6", "7", "8", "9", "_" }
            safe(x) == SelectSeq(x, LAMBDA ch : ch \in allowed)
            kinds == { "status", "timestamp", "extracted", "validation",
                       "api_status", "api_response" }
        IN  /\ pchk.writes # <<>>
            /\ \A i \in DOMAIN pchk.writes :
                   \E kind \in kinds :
                       pchk.writes[i][1] =
                           VarName2(kind, safe(pchk.check.name), safe(pchk.task_name))

\* C24  A validation error inside a check downgrades the check to success
\* false with an explanatory message, and the check still returns its
\* result: a regular expression that does not compile in a content check
\* whose target matched, and a JSON path that leads to nothing in the JSON
\* body of an API check.
C24_ValidationErrorFailsTheCheck ==
    pchk.pc = "done" =>
        LET check == pchk.check
            response == pchk.response
            r == pchk.result
            bad_regex ==
                /\ check.type = "content_check"
                /\ r.extracted_value # None
                /\ check.expected_value # None
                /\ check.tolerance = StrValue(<<"r", "e", "g", "e", "x">>)
                /\ ReSearch(check.expected_value.s, r.extracted_value.s).error
            keys == Split(check.target, ".")
            bad_path ==
                /\ check.type = "api_check"
                /\ response.content_type # None
                /\ IsSubstring(<<"j", "s", "o", "n">>, response.content_type.s)
                /\ response.json.loads
                /\ \A l \in response.json.leaves :
                       ~(Len(l.path) >= Len(keys) /\ SubSeq(l.path, 1, Len(keys)) = keys)
        IN  /\ bad_regex =>
                (~r.success /\ \E i \in DOMAIN r.message : r.message[i] = "regex_error")
            /\ bad_path =>
                (~r.success /\ \E i \in DOMAIN r.message : r.message[i] = "json_failed")

\* C25  For a content check: when expected_value is present and the target
\* matched, success is the validation of the text of the first match under
\* the tolerance (exact: equality, regex: the pattern is found, anything
\* else: substring); when expected_value is absent, success is true iff the
\* target matched; when the target did not match and expected_value is
\* present, success is true iff expected_value is a substring of the body.
C25_ContentCheckSuccess ==
    (pchk.pc = "done" /\ pchk.check.type = "content_check") =>
        LET check == pchk.check
            response == pchk.response
            matched == response.elements # <<>>
            first == response.elements[1]
            text == IF StartsWith(check.target, <<"/">>)
                    THEN (IF first.text = None THEN <<>> ELSE first.text.s)
                    ELSE Strip(first.all_text)
            expected == check.expected_value
            valid ==
                CASE check.tolerance = StrValue(<<"e", "x", "a", "c", "t">>) ->
                         text = expected.s
                  [] check.tolerance = StrValue(<<"r", "e", "g", "e", "x">>) ->
                         ReSearch(expected.s, text).found
                  [] OTHER -> IsSubstring(expected.s, text)
        IN  /\ (expected # None /\ matched) => (pchk.result.success = valid)
            /\ (expected = None) => (pchk.result.success = matched)
            /\ (expected # None /\ ~matched) =>
                   (pchk.result.success = IsSubstring(expected.s, response.content))

\* C26  On a scheduling tick, for every enabled task whose next_run is at
\* or before now, at most one execution is started and next_run is advanced
\* to an instant after now, whether or not an execution was started; a tick
\* that finds a run of the task still in progress starts no second run;
\* and the tick starts no disabled task.
C26_TickStartsAtMostOneRun ==
    [][CheckScheduledTasks =>
         \A n \in TickNames :
             LET task == tick.tasks[n]
                 started == { t \in Runs : /\ tick.runs[t].pc = "none"
                                           /\ tick'.runs[t].pc = "running"
                                           /\ tick'.runs[t].task_name = n }
                 in_progress == \E t \in Runs : /\ tick.runs[t].pc = "running"
                                                /\ tick.runs[t].task_name = n
                 due == /\ task.present /\ task.enabled
                        /\ task.next_run # NoInstant
                        /\ Stamp(task.next_run) <= Stamp(tick.now)
             IN  /\ Cardinality(started) <= 1
                 /\ due => Stamp(tick'.tasks[n].next_run) > Stamp(tick.now)
                 /\ in_progress => started = {}
                 /\ (~task.present \/ ~task.enabled) => started = {}]_vars

\* C30  In TaskScheduler, after any sequence of add_scheduled_task,
\* enable_task, disable_task, remove_scheduled_task, start_scheduler and
\* stop_scheduler, while the scheduler is running every enabled task has
\* exactly one registered job and every disabled or removed task has none,
\* so that a task is executed at most once per due time.
C30_OneJobPerEnabledTask ==
    /\ sched.is_running =>
           \A n \in SchedNames :
               IF sched.tasks[n].present /\ sched.tasks[n].enabled
               THEN sched.jobs[n] = 1
               ELSE sched.jobs[n] = 0
    /\ \A n \in SchedNames : sched.executed[n] <= 1

====
